---- MODULE Spec2Model ----
\* Fertilisers-and-Pesticides dashboard: the sale / return / invoice / products
\* screens of the browser client and the hosted backend tables they write.
\* A session is one browser tab showing one page at a time; every await of a
\* handler is one step, so that backend failures and other sessions fall
\* between the steps exactly where the code allows them.
EXTENDS Integers, Sequences, FiniteSets, TLC

\* ---------------------------------------------------------------- bounds
Sessions == {1, 2}
Products == {"p1", "p2"}
InitQty == 2
MaxItems == 2
MaxItemQty == 2
MaxDiscount == 1
MaxRows == 2
MaxInvoices == 2
MaxFetchedInvoices == 2
MaxFetchedSales == 2
MaxFetchedReturns == 1
MaxHistory == 2
MaxProductRows == 2
MaxStock == 3
MaxCompanies == 1

\* unit prices of the product rows (money in whole minor units)
Price == [p \in Products |-> IF p = "p1" THEN 3 ELSE 5]
Customers == {"c1"}
Companies == {"co1"}
InvoiceIds == {"inv1"}
Dates == {"d1"}
Amounts == {"5"}

Max(a, b) == IF a >= b THEN a ELSE b

\* ---------------------------------------------------------------- state
VARIABLES
    dbQty,                  \* products.quantity, per product row
    dbSales,                \* rows of table sales, in insertion order
    dbReturns,              \* rows of table returns, in insertion order
    dbInvoices,             \* rows of table invoices, in created_at order
    page,                   \* the page each session shows
    pc,                     \* where each session's running handler stands
    products,               \* the page's products state (fetched list)
    saleItems,              \* sales page: line items
    selectedSaleCustomer,   \* sales page: selected customer id or ""
    returnItems,            \* returns page: line items
    selectedReturnCompany,  \* returns page: selected company id or ""
    selectedInvoice,        \* returns page: selected invoice id or ""
    formData,               \* invoices page: the create-invoice form
    isLoading,              \* sales / returns / products page flag
    isSubmitting,           \* invoices page flag
    job,                    \* what the running handler closed over
    audit,                  \* per session: record of the latest submission
    reportInput,            \* the rows the report screens select, and the time zone
    view,                   \* the report screen shown and its component state
    guard,                  \* per session: AuthGuard's state and the route shown
    authSession,            \* whether the browser holds an active auth session
    dbProducts,             \* rows of table products as the products page writes them
    catalog,                \* per session: the products page's component state
    dbCompanies,            \* rows of table companies, in insertion order
    companiesPage           \* the companies page's component state

dbVars == <<dbQty, dbSales, dbReturns, dbInvoices>>
saleForm == <<saleItems, selectedSaleCustomer>>
returnForm == <<returnItems, selectedReturnCompany, selectedInvoice>>
flags == <<isLoading, isSubmitting>>
stockVars == <<dbQty, dbSales, dbReturns, dbInvoices, page, pc, products,
               saleItems, selectedSaleCustomer, returnItems, selectedReturnCompany,
               selectedInvoice, formData, isLoading, isSubmitting, job, audit>>
reportVars == <<reportInput, view>>
authVars == <<guard, authSession>>
catalogVars == <<dbProducts, catalog>>
companyVars == <<dbCompanies, companiesPage>>
\* what the sale, return, products and invoice screens never touch
elsewhere == <<reportVars, authVars, catalogVars, companyVars>>
vars == <<stockVars, reportVars, authVars, catalogVars, companyVars>>

\* ---------------------------------------------------------------- values
EmptyItem == [productId |-> "", quantity |-> 1, discount |-> 0]
EmptyForm == [company_id |-> "", invoice_number |-> <<>>, date |-> "", total_amount |-> ""]
NoProducts == [p \in {} |-> 0]
NoJob == [validItems |-> <<>>, products |-> NoProducts, data |-> <<>>, idx |-> 0]
\* audit: kind of the submission, the form as submitted, how the handler ended
\* (none | running | invalid | rejected | failed | done), the backend calls it
\* issued, how many of them failed, the quantity updates it committed, and the
\* tables as they were when it started
NoAudit == [kind |-> "none", form |-> <<>>, outcome |-> "none", calls |-> 0, failed |-> 0,
            committed |-> <<>>, rowsBefore |-> <<>>, qtyBefore |-> NoProducts]
\* no rows in the tables the report screens read; browser east of UTC
NoRows == [invoices |-> <<>>, sales |-> <<>>, returns |-> <<>>, tzWest |-> FALSE]
\* no report screen open: the ghost field last keeps, per screen, what its
\* latest completed fetch computed
NoView == [page |-> "none", pc |-> "idle", data |-> <<>>, outcome |-> "none", last |-> <<>>]
\* AuthGuard as mounted: useState(true), useState(false), checkAuth started
FreshGuard == [loading |-> TRUE, authenticated |-> FALSE, route |-> "dashboard",
               pushed |-> FALSE, checking |-> TRUE, event |-> "none", seen |-> "none"]
\* AuthGuard once getSession has returned a session
AdmittedGuard == [loading |-> FALSE, authenticated |-> TRUE, route |-> "dashboard",
                  pushed |-> FALSE, checking |-> FALSE, event |-> "none", seen |-> "session"]

\* ---------------------------------------------------------------- helpers
RECURSIVE SumQty(_, _)
\* sum of quantity over the rows of a table that reference product p
SumQty(rows, p) ==
    IF rows = <<>> THEN 0
    ELSE (IF Head(rows).product_id = p THEN Head(rows).quantity ELSE 0) + SumQty(Tail(rows), p)

\* saleItems.filter((item) => item.productId)
ValidItems(items) == SelectSeq(items, LAMBDA item : item.productId # "")

\* products.find((p) => p.id === id) is defined
Found(prods, id) == id \in DOMAIN prods

\* variant: the stock loop rejects nothing
StockOkAlways(prods, validItems) == TRUE

\* the stock loop: no valid item asks for more than the fetched quantity
StockOk(prods, validItems) ==
    \A i \in 1..Len(validItems) :
        ~(Found(prods, validItems[i].productId)
          /\ validItems[i].quantity > prods[validItems[i].productId].quantity)

\* variant: the discount is left out of the row's total
TotalPriceNoDiscount(prods, item) ==
    IF Found(prods, item.productId)
    THEN prods[item.productId].price * item.quantity
    ELSE 0

\* product ? product.price * item.quantity - item.discount : 0
TotalPrice(prods, item) ==
    IF Found(prods, item.productId)
    THEN prods[item.productId].price * item.quantity - item.discount
    ELSE 0

\* item.discount || null : <<>> stands for null
DiscountOrNull(d) == IF d = 0 THEN <<>> ELSE <<d>>

\* one element of saleData / returnData
RowOf(prods, item) ==
    [product_id |-> item.productId,
     quantity |-> item.quantity,
     total_price |-> TotalPrice(prods, item),
     discount_price |-> DiscountOrNull(item.discount)]

RowsOf(prods, validItems) == [i \in 1..Len(validItems) |-> RowOf(prods, validItems[i])]

\* .update({ quantity: product.quantity - item.quantity })
NewQuantity(product, item) == product.quantity - item.quantity

\* the rows a products select returns: id, price, quantity
FetchedProducts(qty) == [p \in Products |-> [quantity |-> qty[p], price |-> Price[p]]]

\* ---------------------------------------------------------------- initial state
InitStock(pages) ==
    /\ dbQty = [p \in Products |-> InitQty]
    /\ dbSales = <<>>
    /\ dbReturns = <<>>
    /\ dbInvoices = <<>>
    /\ page = pages
    /\ pc = [s \in Sessions |-> "mount"]
    /\ products = [s \in Sessions |-> NoProducts]
    /\ saleItems = [s \in Sessions |-> <<EmptyItem>>]
    /\ selectedSaleCustomer = [s \in Sessions |-> ""]
    /\ returnItems = [s \in Sessions |-> <<EmptyItem>>]
    /\ selectedReturnCompany = [s \in Sessions |-> ""]
    /\ selectedInvoice = [s \in Sessions |-> ""]
    /\ formData = [s \in Sessions |-> EmptyForm]
    /\ isLoading = [s \in Sessions |-> TRUE]
    /\ isSubmitting = [s \in Sessions |-> FALSE]
    /\ job = [s \in Sessions |-> NoJob]
    /\ audit = [s \in Sessions |-> NoAudit]

\* the dashboard behind an AuthGuard that has admitted every session
Admitted ==
    /\ guard = [s \in Sessions |-> AdmittedGuard]
    /\ authSession = TRUE

ClosedCatalog ==
    [products |-> <<>>, filterCategory |-> "", isLoading |-> FALSE, isSubmitting |-> FALSE,
     isEditMode |-> FALSE, editingProduct |-> <<>>, pc |-> "closed", fetching |-> FALSE,
     job |-> <<>>, toast |-> ""]

ClosedCompanies ==
    [companies |-> <<>>, name |-> "", isLoading |-> FALSE, isSubmitting |-> FALSE,
     pc |-> "closed", fetching |-> FALSE, toast |-> ""]

\* no session is on the products page or on the companies page
NoCatalogue ==
    /\ dbProducts = <<>>
    /\ catalog = [s \in Sessions |-> ClosedCatalog]
    /\ dbCompanies = <<>>
    /\ companiesPage = ClosedCompanies

InitOn(pages) ==
    /\ InitStock(pages)
    /\ reportInput = NoRows
    /\ view = NoView
    /\ Admitted
    /\ NoCatalogue

Init == InitOn([s \in Sessions |-> "sales"])

\* the form of the page session s shows
FormOf(s) ==
    CASE page[s] = "sales" -> <<saleItems[s], selectedSaleCustomer[s]>>
      [] page[s] = "returns" -> <<returnItems[s], selectedReturnCompany[s], selectedInvoice[s]>>
      [] page[s] = "invoices" -> <<formData[s]>>
      [] OTHER -> <<>>

Touch(s) == audit' = [audit EXCEPT ![s] = NoAudit]

\* ---------------------------------------------------------------- navigation
\* the router mounts a page: every useState starts from its initial value and
\* the mount effect starts the page's fetches
Navigate(s, pg) ==
    /\ pc[s] = "idle"
    /\ page' = [page EXCEPT ![s] = pg]
    /\ pc' = [pc EXCEPT ![s] = "mount"]
    /\ products' = [products EXCEPT ![s] = NoProducts]
    /\ saleItems' = [saleItems EXCEPT ![s] = <<EmptyItem>>]
    /\ selectedSaleCustomer' = [selectedSaleCustomer EXCEPT ![s] = ""]
    /\ returnItems' = [returnItems EXCEPT ![s] = <<EmptyItem>>]
    /\ selectedReturnCompany' = [selectedReturnCompany EXCEPT ![s] = ""]
    /\ selectedInvoice' = [selectedInvoice EXCEPT ![s] = ""]
    /\ formData' = [formData EXCEPT ![s] = EmptyForm]
    /\ isLoading' = [isLoading EXCEPT ![s] = TRUE]
    /\ isSubmitting' = [isSubmitting EXCEPT ![s] = FALSE]
    /\ job' = [job EXCEPT ![s] = NoJob]
    /\ Touch(s)
    /\ UNCHANGED <<elsewhere, dbVars>>

\* fetchProducts of the sales and returns pages, run by the mount effect
fetchProductsOk(s) ==
    /\ page[s] \in {"sales", "returns"}
    /\ pc[s] = "mount"
    /\ products' = [products EXCEPT ![s] = FetchedProducts(dbQty)]
    /\ pc' = [pc EXCEPT ![s] = "idle"]
    /\ isLoading' = [isLoading EXCEPT ![s] = FALSE]
    /\ UNCHANGED <<elsewhere, dbVars, page, saleForm, returnForm, formData, isSubmitting, job, audit>>

fetchProductsFail(s) ==
    /\ page[s] \in {"sales", "returns"}
    /\ pc[s] = "mount"
    /\ pc' = [pc EXCEPT ![s] = "idle"]
    /\ isLoading' = [isLoading EXCEPT ![s] = FALSE]
    /\ UNCHANGED <<elsewhere, dbVars, page, products, saleForm, returnForm, formData, isSubmitting, job, audit>>

\* ---------------------------------------------------------------- line items
\* the options of the product select: fetched products whose quantity is not 0
\* (isOptionDisabled), or the cleared value (isClearable)
ProductChoices(prods) == {""} \cup {p \in DOMAIN prods : prods[p].quantity # 0}

AddItem(items) == Append(items, EmptyItem)

\* updatedItems[index] = { ...updatedItems[index], [field]: value }
UpdateItem(items, index, field, value) ==
    [items EXCEPT ![index] = [items[index] EXCEPT ![field] = value]]

\* variant: splice without the length test
RemoveItemUnguarded(items, index) ==
    [i \in 1..(Len(items) - 1) |-> IF i < index THEN items[i] ELSE items[i + 1]]

\* if (items.length > 1) updatedItems.splice(index, 1)
RemoveItem(items, index) ==
    IF Len(items) > 1
    THEN [i \in 1..(Len(items) - 1) |-> IF i < index THEN items[i] ELSE items[i + 1]]
    ELSE items

\* what the three inputs of a line item can be set to: an enabled option of the
\* select, Number(e.target.value) of the quantity input (0 when it is emptied),
\* Number(e.target.value) of the discount input
FieldValues(prods, field, offered, discounts) ==
    CASE field = "productId" -> ProductChoices(prods) \cap (offered \cup {""})
      [] field = "quantity" -> 0..MaxItemQty
      [] field = "discount" -> discounts

ItemFields == {"productId", "quantity", "discount"}

handleSaleCustomerChange(s, c) ==
    /\ page[s] = "sales" /\ pc[s] = "idle"
    /\ selectedSaleCustomer' = [selectedSaleCustomer EXCEPT ![s] = c]
    /\ Touch(s)
    /\ UNCHANGED <<elsewhere, dbVars, page, pc, products, saleItems, returnForm, formData, flags, job>>

addSaleItem(s) ==
    /\ page[s] = "sales" /\ pc[s] = "idle"
    /\ Len(saleItems[s]) < MaxItems
    /\ saleItems' = [saleItems EXCEPT ![s] = AddItem(@)]
    /\ Touch(s)
    /\ UNCHANGED <<elsewhere, dbVars, page, pc, products, selectedSaleCustomer, returnForm, formData, flags, job>>

updateSaleItem(s, index, field, value) ==
    /\ page[s] = "sales" /\ pc[s] = "idle"
    /\ index \in 1..Len(saleItems[s])
    /\ saleItems' = [saleItems EXCEPT ![s] = UpdateItem(@, index, field, value)]
    /\ Touch(s)
    /\ UNCHANGED <<elsewhere, dbVars, page, pc, products, selectedSaleCustomer, returnForm, formData, flags, job>>

removeSaleItem(s, index) ==
    /\ page[s] = "sales" /\ pc[s] = "idle"
    /\ index \in 1..Len(saleItems[s])
    /\ saleItems' = [saleItems EXCEPT ![s] = RemoveItem(@, index)]
    /\ Touch(s)
    /\ UNCHANGED <<elsewhere, dbVars, page, pc, products, selectedSaleCustomer, returnForm, formData, flags, job>>

\* ---------------------------------------------------------------- recordSale / recordReturn
NewAudit(s, kind) ==
    [NoAudit EXCEPT !.kind = kind, !.form = FormOf(s),
                    !.rowsBefore = <<Len(dbSales), Len(dbReturns)>>, !.qtyBefore = dbQty]

\* if (!selectedSaleCustomer) return; if (validItems.length === 0) return
SaleInvalid(customer, items) == customer = "" \/ Len(ValidItems(items)) = 0

\* if (!selectedReturnCompany) return; if (!selectedInvoice) return; if (validItems.length === 0) return
ReturnInvalid(company, invoice, items) == company = "" \/ invoice = "" \/ Len(ValidItems(items)) = 0

\* the synchronous head of recordSale / recordReturn, up to the first await:
\* validation, setIsLoading(true), the stock loop, saleData
RecordHead(s, kind, invalid, items) ==
    LET validItems == ValidItems(items)
        au == NewAudit(s, kind)
    IN  IF invalid
        THEN /\ audit' = [audit EXCEPT ![s] = [au EXCEPT !.outcome = "invalid"]]
             /\ UNCHANGED <<pc, job, isLoading>>
        ELSE IF ~StockOk(products[s], validItems)
        THEN \* toast, return; finally setIsLoading(false)
             /\ audit' = [audit EXCEPT ![s] = [au EXCEPT !.outcome = "rejected"]]
             /\ UNCHANGED <<pc, job, isLoading>>
        ELSE /\ Len(dbSales) + Len(dbReturns) + Len(validItems) <= MaxRows
             /\ audit' = [audit EXCEPT ![s] = [au EXCEPT !.outcome = "running"]]
             /\ job' = [job EXCEPT ![s] = [validItems |-> validItems,
                                           products |-> products[s],
                                           data |-> RowsOf(products[s], validItems),
                                           idx |-> 1]]
             /\ pc' = [pc EXCEPT ![s] = "update"]
             /\ isLoading' = [isLoading EXCEPT ![s] = TRUE]

recordSale(s) ==
    /\ page[s] = "sales" /\ pc[s] = "idle"
    /\ RecordHead(s, "sale", SaleInvalid(selectedSaleCustomer[s], saleItems[s]), saleItems[s])
    /\ UNCHANGED <<elsewhere, dbVars, page, products, saleForm, returnForm, formData, isSubmitting>>

recordReturn(s) ==
    /\ page[s] = "returns" /\ pc[s] = "idle"
    /\ RecordHead(s, "return",
                  ReturnInvalid(selectedReturnCompany[s], selectedInvoice[s], returnItems[s]),
                  returnItems[s])
    /\ UNCHANGED <<elsewhere, dbVars, page, products, saleForm, returnForm, formData, isSubmitting>>

\* variant: the catch block puts the product quantities back
RecordCatchRestoring(s) ==
    /\ pc' = [pc EXCEPT ![s] = "idle"]
    /\ isLoading' = [isLoading EXCEPT ![s] = FALSE]
    /\ job' = [job EXCEPT ![s] = NoJob]
    /\ audit' = [audit EXCEPT ![s] = [@ EXCEPT !.outcome = "failed", !.calls = @ + 1, !.failed = @ + 1]]
    /\ dbQty' = audit[s].qtyBefore
    /\ UNCHANGED <<elsewhere, dbSales, dbReturns, dbInvoices, page, products, saleForm, returnForm,
                   formData, isSubmitting>>

\* variant: the catch block resets the form as the success path does
RecordCatchClearing(s) ==
    /\ pc' = [pc EXCEPT ![s] = "idle"]
    /\ isLoading' = [isLoading EXCEPT ![s] = FALSE]
    /\ job' = [job EXCEPT ![s] = NoJob]
    /\ audit' = [audit EXCEPT ![s] = [@ EXCEPT !.outcome = "failed", !.calls = @ + 1, !.failed = @ + 1]]
    /\ saleItems' = [saleItems EXCEPT ![s] = <<EmptyItem>>]
    /\ selectedSaleCustomer' = [selectedSaleCustomer EXCEPT ![s] = ""]
    /\ returnItems' = [returnItems EXCEPT ![s] = <<EmptyItem>>]
    /\ selectedReturnCompany' = [selectedReturnCompany EXCEPT ![s] = ""]
    /\ selectedInvoice' = [selectedInvoice EXCEPT ![s] = ""]
    /\ UNCHANGED <<elsewhere, dbVars, page, products, formData, isSubmitting>>

\* variant: a catch block without the finally
RecordCatchKeepingFlag(s) ==
    /\ pc' = [pc EXCEPT ![s] = "idle"]
    /\ job' = [job EXCEPT ![s] = NoJob]
    /\ audit' = [audit EXCEPT ![s] = [@ EXCEPT !.outcome = "failed", !.calls = @ + 1, !.failed = @ + 1]]
    /\ UNCHANGED <<elsewhere, dbVars, page, products, saleForm, returnForm, formData, flags>>

\* catch (error) { toast.error(...) } finally { setIsLoading(false) }
RecordCatch(s) ==
    /\ pc' = [pc EXCEPT ![s] = "idle"]
    /\ isLoading' = [isLoading EXCEPT ![s] = FALSE]
    /\ job' = [job EXCEPT ![s] = NoJob]
    /\ audit' = [audit EXCEPT ![s] = [@ EXCEPT !.outcome = "failed", !.calls = @ + 1, !.failed = @ + 1]]
    /\ UNCHANGED <<elsewhere, dbVars, page, products, saleForm, returnForm, formData, isSubmitting>>

\* variant: the update loop is left after its first turn
updateQuantityOkOnce(s) ==
    /\ pc[s] = "update"
    /\ LET item == job[s].validItems[job[s].idx]
           p == item.productId
       IN  /\ IF Found(job[s].products, p)
              THEN /\ dbQty' = [dbQty EXCEPT ![p] = NewQuantity(job[s].products[p], item)]
                   /\ audit' = [audit EXCEPT ![s] = [@ EXCEPT !.calls = @ + 1,
                                    !.committed = Append(@, <<p, NewQuantity(job[s].products[p], item)>>)]]
              ELSE UNCHANGED <<dbQty, audit>>
           /\ job' = [job EXCEPT ![s] = [@ EXCEPT !.idx = @ + 1]]
           /\ pc' = [pc EXCEPT ![s] = "insert"]
    /\ UNCHANGED <<elsewhere, dbSales, dbReturns, dbInvoices, page, products, saleForm, returnForm,
                   formData, flags>>

\* one turn of the update loop: the product's quantity is set from the list
\* the handler closed over
updateQuantityOk(s) ==
    /\ pc[s] = "update"
    /\ LET item == job[s].validItems[job[s].idx]
           p == item.productId
           last == job[s].idx = Len(job[s].validItems)
       IN  /\ IF Found(job[s].products, p)
              THEN /\ dbQty' = [dbQty EXCEPT ![p] = NewQuantity(job[s].products[p], item)]
                   /\ audit' = [audit EXCEPT ![s] = [@ EXCEPT !.calls = @ + 1,
                                    !.committed = Append(@, <<p, NewQuantity(job[s].products[p], item)>>)]]
              ELSE UNCHANGED <<dbQty, audit>>
           /\ job' = [job EXCEPT ![s] = [@ EXCEPT !.idx = @ + 1]]
           /\ pc' = [pc EXCEPT ![s] = IF last THEN "insert" ELSE "update"]
    /\ UNCHANGED <<elsewhere, dbSales, dbReturns, dbInvoices, page, products, saleForm, returnForm,
                   formData, flags>>

\* if (error) throw error, inside the update loop
updateQuantityFail(s) ==
    /\ pc[s] = "update"
    /\ Found(job[s].products, job[s].validItems[job[s].idx].productId)
    /\ RecordCatch(s)

\* variant: the insert replaces the rows of the table
insertRowsOkReplacing(s) ==
    /\ pc[s] = "insert"
    /\ IF page[s] = "sales"
       THEN dbSales' = job[s].data /\ UNCHANGED dbReturns
       ELSE dbReturns' = job[s].data /\ UNCHANGED dbSales
    /\ pc' = [pc EXCEPT ![s] = "refresh"]
    /\ audit' = [audit EXCEPT ![s] = [@ EXCEPT !.calls = @ + 1]]
    /\ UNCHANGED <<elsewhere, dbQty, dbInvoices, page, products, saleForm, returnForm, formData,
                   flags, job>>

\* supabase.from('sales' | 'returns').insert(data)
insertRowsOk(s) ==
    /\ pc[s] = "insert"
    /\ IF page[s] = "sales"
       THEN dbSales' = dbSales \o job[s].data /\ UNCHANGED dbReturns
       ELSE dbReturns' = dbReturns \o job[s].data /\ UNCHANGED dbSales
    /\ pc' = [pc EXCEPT ![s] = "refresh"]
    /\ audit' = [audit EXCEPT ![s] = [@ EXCEPT !.calls = @ + 1]]
    /\ UNCHANGED <<elsewhere, dbQty, dbInvoices, page, products, saleForm, returnForm, formData,
                   flags, job>>

insertRowsFail(s) ==
    /\ pc[s] = "insert"
    /\ RecordCatch(s)

\* after the insert: await fetchProducts(), then the form is reset;
\* finally setIsLoading(false)
RecordDone(s, fetched, failed) ==
    /\ pc[s] = "refresh"
    /\ products' = [products EXCEPT ![s] = fetched]
    /\ IF page[s] = "sales"
       THEN /\ saleItems' = [saleItems EXCEPT ![s] = <<EmptyItem>>]
            /\ selectedSaleCustomer' = [selectedSaleCustomer EXCEPT ![s] = ""]
            /\ UNCHANGED returnForm
       ELSE /\ returnItems' = [returnItems EXCEPT ![s] = <<EmptyItem>>]
            /\ selectedReturnCompany' = [selectedReturnCompany EXCEPT ![s] = ""]
            /\ selectedInvoice' = [selectedInvoice EXCEPT ![s] = ""]
            /\ UNCHANGED saleForm
    /\ pc' = [pc EXCEPT ![s] = "idle"]
    /\ isLoading' = [isLoading EXCEPT ![s] = FALSE]
    /\ job' = [job EXCEPT ![s] = NoJob]
    /\ audit' = [audit EXCEPT ![s] = [@ EXCEPT !.outcome = "done", !.calls = @ + 1,
                                               !.failed = @ + (IF failed THEN 1 ELSE 0)]]
    /\ UNCHANGED <<elsewhere, dbVars, page, formData, isSubmitting>>

refreshProductsOk(s) == RecordDone(s, FetchedProducts(dbQty), FALSE)

\* fetchProducts catches its own error: the list stays as it was
refreshProductsFail(s) == RecordDone(s, products[s], TRUE)

\* ---------------------------------------------------------------- returns page form
\* setSelectedReturnCompany(companyId); setSelectedInvoice('')
handleReturnCompanyChange(s, c) ==
    /\ page[s] = "returns" /\ pc[s] = "idle"
    /\ selectedReturnCompany' = [selectedReturnCompany EXCEPT ![s] = c]
    /\ selectedInvoice' = [selectedInvoice EXCEPT ![s] = ""]
    /\ Touch(s)
    /\ UNCHANGED <<elsewhere, dbVars, page, pc, products, saleForm, returnItems, formData, flags, job>>

\* the invoice select is disabled until a company is selected
handleInvoiceChange(s, i) ==
    /\ page[s] = "returns" /\ pc[s] = "idle"
    /\ selectedReturnCompany[s] # ""
    /\ selectedInvoice' = [selectedInvoice EXCEPT ![s] = i]
    /\ Touch(s)
    /\ UNCHANGED <<elsewhere, dbVars, page, pc, products, saleForm, returnItems, selectedReturnCompany,
                   formData, flags, job>>

addReturnItem(s) ==
    /\ page[s] = "returns" /\ pc[s] = "idle"
    /\ Len(returnItems[s]) < MaxItems
    /\ returnItems' = [returnItems EXCEPT ![s] = AddItem(@)]
    /\ Touch(s)
    /\ UNCHANGED <<elsewhere, dbVars, page, pc, products, saleForm, selectedReturnCompany, selectedInvoice,
                   formData, flags, job>>

updateReturnItem(s, index, field, value) ==
    /\ page[s] = "returns" /\ pc[s] = "idle"
    /\ index \in 1..Len(returnItems[s])
    /\ returnItems' = [returnItems EXCEPT ![s] = UpdateItem(@, index, field, value)]
    /\ Touch(s)
    /\ UNCHANGED <<elsewhere, dbVars, page, pc, products, saleForm, selectedReturnCompany, selectedInvoice,
                   formData, flags, job>>

removeReturnItem(s, index) ==
    /\ page[s] = "returns" /\ pc[s] = "idle"
    /\ index \in 1..Len(returnItems[s])
    /\ returnItems' = [returnItems EXCEPT ![s] = RemoveItem(@, index)]
    /\ Touch(s)
    /\ UNCHANGED <<elsewhere, dbVars, page, pc, products, saleForm, selectedReturnCompany, selectedInvoice,
                   formData, flags, job>>

\* ---------------------------------------------------------------- products screen
\* salesData?.reduce((sum, sale) => sum + sale.quantity, 0) || 0, over the
\* sales rows with product_id = p
TotalSold(sales, p) == SumQty(sales, p)

\* actualStock >= 0 ? actualStock : 0, with actualStock = product.quantity - totalSold
ActualStock(quantity, totalSold) ==
    IF quantity - totalSold >= 0 THEN quantity - totalSold ELSE 0

ProductsWithActualStock(qty, sales) ==
    [p \in Products |-> [quantity |-> qty[p],
                         price |-> Price[p],
                         stock |-> ActualStock(qty[p], TotalSold(sales, p)),
                         originalQuantity |-> qty[p]]]

\* fetchProducts of the products screen: the products select, then one sales
\* select per product; setProducts once all have returned
fetchStockOk(s) ==
    /\ page[s] = "products" /\ pc[s] = "mount"
    /\ products' = [products EXCEPT ![s] = ProductsWithActualStock(dbQty, dbSales)]
    /\ pc' = [pc EXCEPT ![s] = "idle"]
    /\ isLoading' = [isLoading EXCEPT ![s] = FALSE]
    /\ UNCHANGED <<elsewhere, dbVars, page, saleForm, returnForm, formData, isSubmitting, job, audit>>

\* any of the selects fails: the catch leaves the list as it was
fetchStockFail(s) ==
    /\ page[s] = "products" /\ pc[s] = "mount"
    /\ pc' = [pc EXCEPT ![s] = "idle"]
    /\ isLoading' = [isLoading EXCEPT ![s] = FALSE]
    /\ UNCHANGED <<elsewhere, dbVars, page, products, saleForm, returnForm, formData, isSubmitting, job, audit>>

\* ---------------------------------------------------------------- invoices page
\* An invoice number is a string of decimal digits, kept as the sequence of
\* its digits: "001" is <<0, 0, 1>>.
RECURSIVE ParseInt(_)
\* parseInt(str, 10) of a non-empty digit string
ParseInt(str) ==
    IF Len(str) = 0 THEN 0
    ELSE 10 * ParseInt(SubSeq(str, 1, Len(str) - 1)) + str[Len(str)]

RECURSIVE NumberToString(_)
\* n.toString() of an integer n >= 0
NumberToString(n) == IF n < 10 THEN <<n>> ELSE Append(NumberToString(n \div 10), n % 10)

RECURSIVE PadStart(_, _)
\* str.padStart(len, '0')
PadStart(str, len) == IF Len(str) >= len THEN str ELSE PadStart(<<0>> \o str, len)

\* parseFloat of the amount field
ParseFloat(str) == CASE str = "5" -> 5 [] OTHER -> 0

FirstNumber == <<0, 0, 1>>

\* getNextInvoiceNumber on the rows as ordered by created_at descending, limit 1
NextInvoiceNumber(invoices) ==
    IF Len(invoices) = 0 THEN FirstNumber
    ELSE PadStart(NumberToString(ParseInt(invoices[Len(invoices)].invoice_number) + 1), 3)

\* initialize(): fetchCompanies, fetchInvoices, getNextInvoiceNumber, then
\* setFormData(prev => ({ ...prev, invoice_number: nextNumber }))
InvoiceInit(s, number, failed) ==
    /\ page[s] = "invoices" /\ pc[s] = "mount"
    /\ formData' = [formData EXCEPT ![s] = [@ EXCEPT !.invoice_number = number]]
    /\ pc' = [pc EXCEPT ![s] = "idle"]
    /\ isLoading' = [isLoading EXCEPT ![s] = FALSE]
    /\ UNCHANGED <<elsewhere, dbVars, page, products, saleForm, returnForm, isSubmitting, job, audit>>

invoiceInitOk(s) == InvoiceInit(s, NextInvoiceNumber(dbInvoices), FALSE)

\* catch (error) { toast.error(...); return '001' }
invoiceInitFail(s) == InvoiceInit(s, FirstNumber, TRUE)

InvoiceFields == {"company_id", "date", "total_amount"}

InvoiceFieldValues(field) ==
    CASE field = "company_id" -> Companies \cup {""}
      [] field = "date" -> Dates \cup {""}
      [] field = "total_amount" -> Amounts \cup {""}

\* setFormData({ ...formData, [field]: value }); the number input is readOnly
setInvoiceField(s, field, value) ==
    /\ page[s] = "invoices" /\ pc[s] = "idle"
    /\ formData' = [formData EXCEPT ![s] = [@ EXCEPT ![field] = value]]
    /\ Touch(s)
    /\ UNCHANGED <<elsewhere, dbVars, page, pc, products, saleForm, returnForm, flags, job>>

\* if (!formData.company_id || !formData.invoice_number || !formData.date || !formData.total_amount)
InvoiceInvalid(form) ==
    form.company_id = "" \/ Len(form.invoice_number) = 0 \/ form.date = "" \/ form.total_amount = ""

\* [{ ...formData, total_amount: parseFloat(formData.total_amount) }]
InvoiceRow(form) == [form EXCEPT !.total_amount = ParseFloat(form.total_amount)]

handleSubmit(s) ==
    /\ page[s] = "invoices" /\ pc[s] = "idle"
    /\ IF InvoiceInvalid(formData[s])
       THEN /\ audit' = [audit EXCEPT ![s] = [NewAudit(s, "invoice") EXCEPT !.outcome = "invalid"]]
            /\ UNCHANGED <<pc, isSubmitting>>
       ELSE /\ Len(dbInvoices) < MaxInvoices
            /\ audit' = [audit EXCEPT ![s] = [NewAudit(s, "invoice") EXCEPT !.outcome = "running"]]
            /\ pc' = [pc EXCEPT ![s] = "invInsert"]
            /\ isSubmitting' = [isSubmitting EXCEPT ![s] = TRUE]
    /\ UNCHANGED <<elsewhere, dbVars, page, products, saleForm, returnForm, formData, isLoading, job>>

insertInvoiceOk(s) ==
    /\ pc[s] = "invInsert"
    /\ dbInvoices' = Append(dbInvoices, InvoiceRow(formData[s]))
    /\ pc' = [pc EXCEPT ![s] = "invNext"]
    /\ audit' = [audit EXCEPT ![s] = [@ EXCEPT !.calls = @ + 1]]
    /\ UNCHANGED <<elsewhere, dbQty, dbSales, dbReturns, page, products, saleForm, returnForm, formData,
                   flags, job>>

\* catch (error) { toast.error(...) } finally { setIsSubmitting(false) }
InvoiceCatch(s) ==
    /\ pc' = [pc EXCEPT ![s] = "idle"]
    /\ isSubmitting' = [isSubmitting EXCEPT ![s] = FALSE]
    /\ audit' = [audit EXCEPT ![s] = [@ EXCEPT !.outcome = "failed", !.calls = @ + 1, !.failed = @ + 1]]
    /\ UNCHANGED <<elsewhere, dbVars, page, products, saleForm, returnForm, formData, isLoading, job>>

insertInvoiceFail(s) ==
    /\ pc[s] = "invInsert"
    /\ InvoiceCatch(s)

\* const nextNumber = await getNextInvoiceNumber(); setFormData({ company_id: '',
\* invoice_number: nextNumber, date: '', total_amount: '' })
InvoiceDone(s, number, failed) ==
    /\ pc[s] = "invNext"
    /\ formData' = [formData EXCEPT ![s] = [EmptyForm EXCEPT !.invoice_number = number]]
    /\ pc' = [pc EXCEPT ![s] = "idle"]
    /\ isSubmitting' = [isSubmitting EXCEPT ![s] = FALSE]
    /\ audit' = [audit EXCEPT ![s] = [@ EXCEPT !.outcome = "done", !.calls = @ + 1,
                                               !.failed = @ + (IF failed THEN 1 ELSE 0)]]
    /\ UNCHANGED <<elsewhere, dbVars, page, products, saleForm, returnForm, isLoading, job>>

nextNumberOk(s) == InvoiceDone(s, NextInvoiceNumber(dbInvoices), FALSE)

nextNumberFail(s) == InvoiceDone(s, FirstNumber, TRUE)

\* ---------------------------------------------------------------- report helpers
\* Dates are the strings 'YYYY-MM-DD', kept as <<year, month, day>>; month keys
\* 'YYYY-MM' as <<year, month>>. String order on them is the order below.
ReportDates == {<<2024, 1, 31>>, <<2024, 2, 1>>, <<2024, 2, 2>>}
ReportAmounts == {1, 2}
ReportCompanies == {"co1", "co2"}
ReportCustomers == {"c1"}

\* a < b for two keys of the same length, as string comparison
KeyLess(a, b) ==
    \E i \in 1..Len(a) : a[i] < b[i] /\ \A j \in 1..(i - 1) : a[j] = b[j]

\* the day before a date (month lengths of a leap year)
PrevDay(date) ==
    LET lastOf == [m \in 1..12 |-> IF m = 2 THEN 29
                                   ELSE IF m \in {4, 6, 9, 11} THEN 30 ELSE 31]
    IN  IF date[3] > 1 THEN <<date[1], date[2], date[3] - 1>>
        ELSE IF date[2] > 1 THEN <<date[1], date[2] - 1, lastOf[date[2] - 1]>>
        ELSE <<date[1] - 1, 12, 31>>

\* new Date('YYYY-MM-DD') is midnight UTC; getFullYear / getMonth read it in
\* local time, which west of UTC is still the day before
LocalDate(date, tzWest) == IF tzWest THEN PrevDay(date) ELSE date

\* `${date.getFullYear()}-${String(date.getMonth() + 1).padStart(2, '0')}`
MonthKey(date, tzWest) ==
    LET local == LocalDate(date, tzWest) IN <<local[1], local[2]>>

\* new Date(monthKey + '-01').toLocaleDateString('en-IN', { month, year })
MonthLabel(monthKey, tzWest) == MonthKey(<<monthKey[1], monthKey[2], 1>>, tzWest)

\* rows.map(row => row[column])
Column(rows, column) == [i \in 1..Len(rows) |-> rows[i][column]]

\* the month key of each row's date column
MonthKeys(rows, column, tzWest) ==
    [i \in 1..Len(rows) |-> MonthKey(rows[i][column], tzWest)]

\* what a reducer reads of each row: its key and its amount column
Keyed(rows, keys, amount) ==
    [i \in 1..Len(rows) |-> [key |-> keys[i], amount |-> rows[i][amount]]]

\* variant: a key seen again takes the new amount instead of adding it
AccumulateOverwrite(acc, pair) ==
    IF \E i \in 1..Len(acc) : acc[i].key = pair.key
    THEN [i \in 1..Len(acc) |->
             IF acc[i].key = pair.key
             THEN [acc[i] EXCEPT !.total = pair.amount, !.count = @ + 1]
             ELSE acc[i]]
    ELSE Append(acc, [key |-> pair.key, total |-> pair.amount, count |-> 1])

\* a reducer step that keeps the amount of the first row of a key
AccumulateFirst(acc, pair) ==
    IF \E i \in 1..Len(acc) : acc[i].key = pair.key
    THEN [i \in 1..Len(acc) |->
             IF acc[i].key = pair.key THEN [acc[i] EXCEPT !.count = @ + 1] ELSE acc[i]]
    ELSE Append(acc, [key |-> pair.key, total |-> pair.amount, count |-> 1])

\* one step of a reducer: acc[key] = (acc[key] || { total: 0, count: 0 }),
\* total += amount, count += 1. An object is the sequence of its entries in
\* insertion order.
Accumulate(acc, pair) ==
    IF \E i \in 1..Len(acc) : acc[i].key = pair.key
    THEN [i \in 1..Len(acc) |->
             IF acc[i].key = pair.key
             THEN [acc[i] EXCEPT !.total = @ + pair.amount, !.count = @ + 1]
             ELSE acc[i]]
    ELSE Append(acc, [key |-> pair.key, total |-> pair.amount, count |-> 1])

RECURSIVE ReduceByKey(_, _)
\* pairs.reduce(Accumulate, acc)
ReduceByKey(pairs, acc) ==
    IF pairs = <<>> THEN acc
    ELSE ReduceByKey(Tail(pairs), Accumulate(acc, Head(pairs)))

\* Object.keys(obj)
Keys(obj) == [i \in 1..Len(obj) |-> obj[i].key]

\* variant: a key the object lacks takes the total of its first entry
TotalOfOrFirst(obj, key) ==
    IF \E i \in 1..Len(obj) : obj[i].key = key
    THEN (CHOOSE e \in {obj[i] : i \in 1..Len(obj)} : e.key = key).total
    ELSE IF obj = <<>> THEN 0 ELSE obj[1].total

\* obj[key]?.total || 0
TotalOf(obj, key) ==
    IF \E i \in 1..Len(obj) : obj[i].key = key
    THEN (CHOOSE e \in {obj[i] : i \in 1..Len(obj)} : e.key = key).total
    ELSE 0

\* obj[key]?.count || 0
CountOf(obj, key) ==
    IF \E i \in 1..Len(obj) : obj[i].key = key
    THEN (CHOOSE e \in {obj[i] : i \in 1..Len(obj)} : e.key = key).count
    ELSE 0

RECURSIVE SumSeq(_)
SumSeq(nums) == IF nums = <<>> THEN 0 ELSE Head(nums) + SumSeq(Tail(nums))

\* rows.reduce((sum, row) => sum + amount, 0)
SumOf(rows, amount) == SumSeq(Column(rows, amount))

RECURSIVE Unique(_)
\* Array.from(new Set(seq)): first occurrences, in order
Unique(seq) ==
    IF seq = <<>> THEN <<>>
    ELSE LET init == Unique(SubSeq(seq, 1, Len(seq) - 1))
             x == seq[Len(seq)]
         IN  IF \E i \in 1..Len(init) : init[i] = x THEN init ELSE Append(init, x)

\* a stable sort of seq by its elements' sort keys, ascending: the element of
\* rank k is the one with k - 1 elements before it
Sorted(seq, keys) ==
    LET n == Len(seq)
        rank(i) == 1 + Cardinality({j \in 1..n : \/ KeyLess(keys[j], keys[i])
                                                  \/ (keys[j] = keys[i] /\ j < i)})
    IN  [k \in 1..n |-> seq[CHOOSE i \in 1..n : rank(i) = k]]

\* the sort key of a comparator that reverses the order: (a, b) => b - a
Descending(key) == [j \in 1..Len(key) |-> 0 - key[j]]

\* keys.sort(): ascending string order
SortKeys(keys) == Sorted(keys, keys)

\* .order(column, { ascending: true }) of a select
OrderBy(rows, column) == Sorted(rows, Column(rows, column))

\* .order(column, { ascending: false }) of a select
OrderByDesc(rows, column) ==
    Sorted(rows, [i \in 1..Len(rows) |-> Descending(rows[i][column])])

\* variant: the percentage rounded down to a whole number
PercentFloor(a, b) == [num |-> (a * 100) \div b, den |-> 1]

\* a / b * 100 as the exact fraction num / den; the code computes it in doubles,
\* where den = 0 gives Infinity, -Infinity or NaN
Percent(a, b) == [num |-> a * 100, den |-> b]

\* null
Null == <<>>

\* ---------------------------------------------------------------- report screens
\* {} : the accumulator every reducer of the report screens starts from
EmptyObject == <<>>

Zero == [num |-> 0, den |-> 1]

\* the router mounts a report screen: its state starts from the useState
\* defaults and the mount effect starts its fetch. The ghost field outcome
\* records how that fetch ended and last keeps what the screen left behind
\* showed.
OpenReport(pg, initial) ==
    /\ view.pc = "idle"
    /\ view' = [page |-> pg, pc |-> "mount", data |-> initial, outcome |-> "none",
                last |-> IF view.page = "none" THEN <<>>
                         ELSE [page |-> view.page, data |-> view.data,
                               outcome |-> view.outcome]]
    /\ UNCHANGED <<stockVars, reportInput, authVars, catalogVars, companyVars>>

\* setState calls of a fetch that returned, then finally setIsLoading(false)
ReportLoaded(pg, data) ==
    /\ view.page = pg /\ view.pc = "mount"
    /\ view' = [view EXCEPT !.pc = "idle", !.outcome = "loaded",
                            !.data = [data EXCEPT !.isLoading = FALSE]]
    /\ UNCHANGED <<stockVars, reportInput, authVars, catalogVars, companyVars>>

\* a select of the fetch fails: catch (toast), finally setIsLoading(false)
ReportFailed(pg) ==
    /\ view.page = pg /\ view.pc = "mount"
    /\ view' = [view EXCEPT !.pc = "idle", !.outcome = "failed",
                            !.data = [@ EXCEPT !.isLoading = FALSE]]
    /\ UNCHANGED <<stockVars, reportInput, authVars, catalogVars, companyVars>>

\* ---- turnover screen (fetchTurnoverData)
TurnoverInitial ==
    [totalPurchaseTurnover |-> 0, totalSalesTurnover |-> 0, dailyTurnover |-> <<>>,
     monthlyTurnover |-> <<>>, companyTurnover |-> <<>>, totalInvoices |-> 0,
     avgDailyTurnover |-> Zero, isLoading |-> TRUE]

\* the daily series: one entry per date of allDates
DailyTurnoverData(dailyPurchases, dailySales) ==
    LET allDates == SortKeys(Unique(Keys(dailyPurchases) \o Keys(dailySales)))
    IN  [i \in 1..Len(allDates) |->
            [date |-> allDates[i],
             purchaseTurnover |-> TotalOf(dailyPurchases, allDates[i]),
             salesTurnover |-> TotalOf(dailySales, allDates[i]),
             netTurnover |-> TotalOf(dailySales, allDates[i]) - TotalOf(dailyPurchases, allDates[i]),
             invoiceCount |-> CountOf(dailyPurchases, allDates[i])]]

\* a monthly series over the months that have a sale only
MonthlyTurnoverDataOfSales(monthlyPurchases, monthlySales, tzWest) ==
    LET allMonths == SortKeys(Unique(Keys(monthlySales)))
    IN  [i \in 1..Len(allMonths) |->
            [month |-> MonthLabel(allMonths[i], tzWest),
             purchaseTurnover |-> TotalOf(monthlyPurchases, allMonths[i]),
             salesTurnover |-> TotalOf(monthlySales, allMonths[i]),
             netTurnover |-> TotalOf(monthlySales, allMonths[i]) - TotalOf(monthlyPurchases, allMonths[i]),
             invoiceCount |-> CountOf(monthlyPurchases, allMonths[i])]]

\* the monthly series: one entry per month key of allMonths, labelled
MonthlyTurnoverData(monthlyPurchases, monthlySales, tzWest) ==
    LET allMonths == SortKeys(Unique(Keys(monthlyPurchases) \o Keys(monthlySales)))
    IN  [i \in 1..Len(allMonths) |->
            [month |-> MonthLabel(allMonths[i], tzWest),
             purchaseTurnover |-> TotalOf(monthlyPurchases, allMonths[i]),
             salesTurnover |-> TotalOf(monthlySales, allMonths[i]),
             netTurnover |-> TotalOf(monthlySales, allMonths[i]) - TotalOf(monthlyPurchases, allMonths[i]),
             invoiceCount |-> CountOf(monthlyPurchases, allMonths[i])]]

\* Object.values(companyAnalysis).map(...).sort((a, b) => b.purchaseTurnover - a.purchaseTurnover)
CompanyTurnoverData(companyAnalysis, totalPurchases) ==
    LET mapped == [i \in 1..Len(companyAnalysis) |->
                      [name |-> companyAnalysis[i].key,
                       purchaseTurnover |-> companyAnalysis[i].total,
                       invoiceCount |-> companyAnalysis[i].count,
                       avgInvoiceValue |-> IF companyAnalysis[i].count > 0
                                           THEN [num |-> companyAnalysis[i].total,
                                                 den |-> companyAnalysis[i].count]
                                           ELSE Zero,
                       marketShare |-> IF totalPurchases > 0
                                       THEN Percent(companyAnalysis[i].total, totalPurchases)
                                       ELSE Zero]]
    IN  Sorted(mapped, [i \in 1..Len(mapped) |-> Descending(<<mapped[i].purchaseTurnover>>)])

\* what fetchTurnoverData computes from the rows its two selects return
TurnoverOf(input) ==
    LET purchases == OrderBy(input.invoices, "date")
        sales == OrderBy(input.sales, "purchase_date")
        totalPurchases == SumOf(purchases, "total_amount")
        dailyPurchases ==
            ReduceByKey(Keyed(purchases, Column(purchases, "date"), "total_amount"), EmptyObject)
        dailySales ==
            ReduceByKey(Keyed(sales, Column(sales, "purchase_date"), "total_price"), EmptyObject)
        monthlyPurchases ==
            ReduceByKey(Keyed(purchases, MonthKeys(purchases, "date", input.tzWest),
                              "total_amount"), EmptyObject)
        monthlySales ==
            ReduceByKey(Keyed(sales, MonthKeys(sales, "purchase_date", input.tzWest),
                              "total_price"), EmptyObject)
        companyAnalysis ==
            ReduceByKey(Keyed(purchases, Column(purchases, "company_id"), "total_amount"), EmptyObject)
        daily == DailyTurnoverData(dailyPurchases, dailySales)
    IN  [totalPurchaseTurnover |-> totalPurchases,
         totalSalesTurnover |-> SumOf(sales, "total_price"),
         totalInvoices |-> Len(purchases),
         dailyTurnover |-> daily,
         monthlyTurnover |-> MonthlyTurnoverData(monthlyPurchases, monthlySales, input.tzWest),
         companyTurnover |-> CompanyTurnoverData(companyAnalysis, totalPurchases),
         avgDailyTurnover |->
             IF Len(daily) > 0
             THEN [num |-> SumSeq([i \in 1..Len(daily) |->
                                      daily[i].purchaseTurnover + daily[i].salesTurnover]),
                   den |-> Len(daily)]
             ELSE Zero,
         isLoading |-> TRUE]

\* variant: the daily series is added to the one the previous run left
fetchTurnoverDataLeftOver ==
    ReportLoaded("turnover",
        [TurnoverOf(reportInput) EXCEPT
            !.dailyTurnover = (IF view.last # <<>> /\ view.last.page = "turnover"
                               THEN view.last.data.dailyTurnover ELSE <<>>) \o @])

fetchTurnoverDataOk == ReportLoaded("turnover", TurnoverOf(reportInput))

fetchTurnoverDataFail == ReportFailed("turnover")

\* ---- sales turnover screen (fetchTurnover)
SalesChartInitial == [totalSales |-> 0, salesData |-> <<>>, isLoading |-> TRUE]

\* what fetchTurnover computes from the rows its select returns (no order asked)
SalesChartOf(input) ==
    LET aggregated ==
            ReduceByKey(Keyed(input.sales, Column(input.sales, "purchase_date"), "total_price"),
                        EmptyObject)
        \* .sort((a, b) => new Date(a.date).getTime() - new Date(b.date).getTime())
        mapped == [i \in 1..Len(aggregated) |->
                      [date |-> aggregated[i].key, sales |-> aggregated[i].total]]
        chartData == Sorted(mapped, Column(mapped, "date"))
    IN  [totalSales |-> SumOf(input.sales, "total_price"),
         salesData |-> chartData,
         isLoading |-> TRUE]

fetchTurnoverOk == ReportLoaded("salesTurnover", SalesChartOf(reportInput))

fetchTurnoverFail == ReportFailed("salesTurnover")

\* ---- overview screen (fetchOverviewData)
OverviewInitial ==
    [combinedData |-> <<>>, companyData |-> <<>>, buyerData |-> <<>>, totalPurchases |-> 0,
     totalSales |-> 0, purchaseGrowth |-> Null, salesGrowth |-> Null, totalInvoices |-> 0,
     avgInvoiceValue |-> Zero, isLoading |-> TRUE]

\* chartData: one entry per date of allDates, purchases net of returns
ChartData(grossPurchasesByDate, returnsByDate, salesByDate) ==
    LET allDates == SortKeys(Unique(Keys(grossPurchasesByDate) \o Keys(returnsByDate)
                                        \o Keys(salesByDate)))
    IN  [i \in 1..Len(allDates) |->
            [date |-> allDates[i],
             purchases |-> TotalOf(grossPurchasesByDate, allDates[i])
                               - TotalOf(returnsByDate, allDates[i]),
             sales |-> TotalOf(salesByDate, allDates[i])]]

\* returns.forEach: a return is taken off its company's purchases if the
\* company has an invoice, and dropped otherwise
NetOfReturns(aggregatedByCompany, returns) ==
    [i \in 1..Len(aggregatedByCompany) |->
        [aggregatedByCompany[i] EXCEPT
            !.total = @ - SumOf(SelectSeq(returns,
                                          LAMBDA r : r.company_id = aggregatedByCompany[i].key),
                                "total_price")]]

\* Object.entries(aggregated).map(...).sort((a, b) => b.total - a.total)
RankedData(aggregated) ==
    LET mapped == [i \in 1..Len(aggregated) |->
                      [id |-> aggregated[i].key, purchases |-> aggregated[i].total,
                       total |-> aggregated[i].total]]
    IN  Sorted(mapped, [i \in 1..Len(mapped) |-> Descending(<<mapped[i].total>>)])

\* the growth block: null unless the series has more than one point and its
\* first value is > 0
Growth(series) ==
    IF Len(series) > 1
    THEN IF series[1] > 0 THEN Percent(series[Len(series)] - series[1], series[1]) ELSE Null
    ELSE Null

\* what fetchOverviewData computes from the rows its selects return
OverviewOf(input) ==
    LET purchases == OrderBy(input.invoices, "date")
        returns == OrderBy(input.returns, "return_date")
        sales == OrderBy(input.sales, "purchase_date")
        totalPurchaseAmount == SumOf(purchases, "total_amount")
                                   - SumOf(returns, "total_price")
        chartData ==
            ChartData(
                ReduceByKey(Keyed(purchases, Column(purchases, "date"), "total_amount"),
                            EmptyObject),
                ReduceByKey(Keyed(returns, Column(returns, "return_date"), "total_price"),
                            EmptyObject),
                ReduceByKey(Keyed(sales, Column(sales, "purchase_date"), "total_price"),
                            EmptyObject))
        aggregatedByCompany ==
            NetOfReturns(
                ReduceByKey(Keyed(purchases, Column(purchases, "company_id"), "total_amount"),
                            EmptyObject),
                returns)
        aggregatedByCustomer ==
            ReduceByKey(Keyed(sales, Column(sales, "customer_id"), "total_price"),
                        EmptyObject)
    IN  [combinedData |-> chartData,
         companyData |-> RankedData(aggregatedByCompany),
         buyerData |-> RankedData(aggregatedByCustomer),
         totalPurchases |-> totalPurchaseAmount,
         totalSales |-> SumOf(sales, "total_price"),
         totalInvoices |-> Len(purchases),
         avgInvoiceValue |-> IF Len(purchases) > 0
                             THEN [num |-> totalPurchaseAmount, den |-> Len(purchases)]
                             ELSE Zero,
         purchaseGrowth |-> Growth([i \in 1..Len(chartData) |-> chartData[i].purchases]),
         salesGrowth |-> Growth([i \in 1..Len(chartData) |-> chartData[i].sales]),
         isLoading |-> TRUE]

fetchOverviewDataOk == ReportLoaded("overview", OverviewOf(reportInput))

fetchOverviewDataFail == ReportFailed("overview")

\* the "% of Total" column of a ranking table: (row.purchases / total) * 100
PercentOfTotal(ranked, total) ==
    [i \in 1..Len(ranked) |-> Percent(ranked[i].purchases, total)]

\* ---- reports tabs of the customers and returns screens
\* selected: selectedReportCustomer / selectedReportCompany; history:
\* salesHistory / returnsHistory; options: the customers / companies list has
\* loaded; closure: the history the running generate handler closed over; doc:
\* the document last saved, as (summary rows, detail groups, grand total) with
\* three ghost fields: grouped, the history it was assembled from, fetched,
\* whether the fetch awaited by the generate handler succeeded, and awaited,
\* the rows it returned
ReportTabInitial ==
    [selected |-> "", history |-> <<>>, options |-> FALSE, isLoading |-> FALSE,
     closure |-> <<>>, doc |-> Null]

\* the reports tab of the customers screen and of the returns screen
ReportPages == {"customerReports", "companyReports"}

\* the options of the tab's select: customers / companies
ReportIds(pg) == IF pg = "customerReports" THEN ReportCustomers ELSE {"co1"}

\* the date column a history is grouped by
GroupDate(pg) == IF pg = "customerReports" THEN "purchase_date" ELSE "return_date"

\* the select of fetchSalesHistory / fetchReturnsHistory:
\* .eq(id column, id).order(date column, { ascending: false })
HistoryOf(input, pg, id) ==
    IF pg = "customerReports"
    THEN OrderByDesc(SelectSeq(input.sales, LAMBDA r : r.customer_id = id), "purchase_date")
    ELSE OrderByDesc(SelectSeq(input.returns, LAMBDA r : r.company_id = id), "return_date")

\* a report whose summary rows count the first row of each group only
AssembleReportFirstRows(pg, history) ==
    LET byDate == ReduceByKey(Keyed(history, Column(history, GroupDate(pg)),
                                    "total_price"), EmptyObject)
    IN  [summaryRows |-> [i \in 1..Len(byDate) |->
                             [sno |-> i, date |-> byDate[i].key,
                              items |-> 1, total |-> byDate[i].total]],
         details |-> [i \in 1..Len(byDate) |->
                         [date |-> byDate[i].key,
                          rows |-> SelectSeq(history,
                                             LAMBDA r : r[GroupDate(pg)] = byDate[i].key)]],
         grandTotal |-> SumOf(history, "total_price")]

\* salesByDate / returnsByDate filled by history.forEach, then
\* Object.entries(...) for the summary table and again for the detail tables
AssembleReport(pg, history) ==
    LET byDate == ReduceByKey(Keyed(history, Column(history, GroupDate(pg)), "total_price"),
                              EmptyObject)
    IN  [summaryRows |-> [i \in 1..Len(byDate) |->
                             [sno |-> i, date |-> byDate[i].key,
                              items |-> byDate[i].count, total |-> byDate[i].total]],
         details |-> [i \in 1..Len(byDate) |->
                         [date |-> byDate[i].key,
                          rows |-> SelectSeq(history,
                                             LAMBDA r : r[GroupDate(pg)] = byDate[i].key)]],
         \* history.reduce((total, row) => total + row.total_price, 0)
         grandTotal |-> SumOf(history, "total_price")]

\* the else branch: 'No sales records found for this customer.'
NoRecords == [summaryRows |-> <<>>, details |-> <<>>, grandTotal |-> Null]

\* the mount effect's fetchCustomers / fetchCompanies
ReportTabReady(pg, ok) ==
    /\ view.page = pg /\ view.pc = "mount"
    /\ view' = [view EXCEPT !.pc = "idle", !.data = [@ EXCEPT !.options = ok]]
    /\ UNCHANGED <<stockVars, reportInput, authVars, catalogVars, companyVars>>

\* handleReportCustomerChange / handleReportCompanyChange
ReportSelect(pg, id) ==
    /\ view.page = pg /\ view.pc = "idle"
    /\ id # "" => view.data.options
    /\ view' = [view EXCEPT !.pc = IF id # "" THEN "history" ELSE "idle",
                            !.data = [@ EXCEPT !.selected = id,
                                               !.isLoading = (id # "")]]
    /\ UNCHANGED <<stockVars, reportInput, authVars, catalogVars, companyVars>>

\* fetchSalesHistory / fetchReturnsHistory started by the select handler
HistoryFetched(pg, ok) ==
    /\ view.page = pg /\ view.pc = "history"
    /\ view' = [view EXCEPT
                   !.pc = "idle",
                   !.data = [@ EXCEPT
                                !.history = IF ok THEN HistoryOf(reportInput, pg, view.data.selected)
                                            ELSE @,
                                !.isLoading = FALSE]]
    /\ UNCHANGED <<stockVars, reportInput, authVars, catalogVars, companyVars>>

\* generateCustomerReportPDF / generateCompanyReportPDF up to its await
GenerateReport(pg) ==
    /\ view.page = pg /\ view.pc = "idle"
    /\ IF view.data.selected = ""
       THEN UNCHANGED view
       ELSE view' = [view EXCEPT !.pc = "report",
                                 !.data = [@ EXCEPT !.closure = view.data.history,
                                                    !.isLoading = TRUE]]
    /\ UNCHANGED <<stockVars, reportInput, authVars, catalogVars, companyVars>>

\* the awaited history fetch returns (it catches its own error), the document
\* is built from the history the handler closed over and saved
ReportSaved(pg, ok) ==
    /\ view.page = pg /\ view.pc = "report"
    /\ view' = [view EXCEPT
                   !.pc = "idle",
                   !.data = [@ EXCEPT
                                !.history = IF ok THEN HistoryOf(reportInput, pg, view.data.selected)
                                            ELSE @,
                                !.doc =
                                    LET pdf == IF Len(view.data.closure) > 0
                                               THEN AssembleReport(pg, view.data.closure)
                                               ELSE NoRecords
                                    IN  [summaryRows |-> pdf.summaryRows,
                                         details |-> pdf.details,
                                         grandTotal |-> pdf.grandTotal,
                                         grouped |-> view.data.closure,
                                         fetched |-> ok,
                                         awaited |-> IF ok
                                                     THEN HistoryOf(reportInput, pg,
                                                                    view.data.selected)
                                                     ELSE <<>>],
                                !.closure = <<>>,
                                !.isLoading = FALSE]]
    /\ UNCHANGED <<stockVars, reportInput, authVars, catalogVars, companyVars>>

\* ---------------------------------------------------------------- AuthGuard
\* guard[s]: loading and authenticated are the component's state; route is the
\* route the router shows and pushed a router.push('/login') not yet completed;
\* checking: checkAuth has not returned; event: the auth event waiting for the
\* onAuthStateChange callback; seen: the auth state last observed by the
\* component (none | session | noSession | signedOut)
Mounted(s) == guard[s].route = "dashboard"

\* the component renders {children}: neither the spinner nor null
RendersChildren(s) == Mounted(s) /\ ~guard[s].loading /\ guard[s].authenticated

\* checkAuth: getSession returns; without a session router.push('/login') and
\* return, else setAuthenticated(true); finally setLoading(false)
checkAuthOk(s) ==
    /\ Mounted(s) /\ guard[s].checking
    /\ guard' = [guard EXCEPT ![s] =
                    [@ EXCEPT !.checking = FALSE,
                              !.loading = FALSE,
                              !.authenticated = IF authSession THEN TRUE ELSE @,
                              !.pushed = IF authSession THEN @ ELSE TRUE,
                              !.seen = IF authSession THEN "session" ELSE "noSession"]]
    /\ UNCHANGED <<stockVars, reportVars, authSession, catalogVars, companyVars>>

\* checkAuth: getSession throws; catch router.push('/login'); finally setLoading(false)
checkAuthFail(s) ==
    /\ Mounted(s) /\ guard[s].checking
    /\ guard' = [guard EXCEPT ![s] =
                    [@ EXCEPT !.checking = FALSE, !.loading = FALSE, !.pushed = TRUE]]
    /\ UNCHANGED <<stockVars, reportVars, authSession, catalogVars, companyVars>>

\* the onAuthStateChange callback: (event, session) => { if (event ===
\* 'SIGNED_OUT' || !session) router.push('/login'); else setAuthenticated(true);
\* setLoading(false) }
onAuthStateChange(s) ==
    /\ Mounted(s) /\ guard[s].event # "none"
    /\ LET out == guard[s].event = "SIGNED_OUT"
       IN  guard' = [guard EXCEPT ![s] =
                        [@ EXCEPT !.event = "none",
                                  !.loading = FALSE,
                                  !.authenticated = IF out THEN @ ELSE TRUE,
                                  !.pushed = IF out THEN TRUE ELSE @,
                                  !.seen = IF out THEN "signedOut" ELSE "session"]]
    /\ UNCHANGED <<stockVars, reportVars, authSession, catalogVars, companyVars>>

\* the router completes a pushed navigation: /login replaces the dashboard,
\* AuthGuard unmounts and its subscription is cancelled
LoginShown(s) ==
    /\ Mounted(s) /\ guard[s].pushed
    /\ guard' = [guard EXCEPT ![s] = [@ EXCEPT !.route = "login", !.pushed = FALSE,
                                               !.event = "none", !.checking = FALSE]]
    /\ UNCHANGED <<stockVars, reportVars, authSession, catalogVars, companyVars>>

\* the auth session ends (sign-out in any tab, or expiry): every mounted
\* guard is sent SIGNED_OUT
SignOut ==
    /\ authSession
    /\ authSession' = FALSE
    /\ guard' = [s \in Sessions |->
                    IF Mounted(s) THEN [guard[s] EXCEPT !.event = "SIGNED_OUT"] ELSE guard[s]]
    /\ UNCHANGED <<stockVars, reportVars, catalogVars, companyVars>>

\* the token of a live session is refreshed: every mounted guard is sent
\* TOKEN_REFRESHED with the session
TokenRefreshed ==
    /\ authSession
    /\ guard' = [s \in Sessions |->
                    IF Mounted(s) THEN [guard[s] EXCEPT !.event = "TOKEN_REFRESHED"] ELSE guard[s]]
    /\ UNCHANGED <<stockVars, reportVars, authSession, catalogVars, companyVars>>

\* the user signs in on /login and is sent to the dashboard: a new AuthGuard
\* mounts; the other mounted guards are sent SIGNED_IN
SignIn(s) ==
    /\ guard[s].route = "login"
    /\ authSession' = TRUE
    /\ guard' = [t \in Sessions |->
                    IF t = s THEN FreshGuard
                    ELSE IF Mounted(t) THEN [guard[t] EXCEPT !.event = "SIGNED_IN"]
                    ELSE guard[t]]
    /\ UNCHANGED <<stockVars, reportVars, catalogVars, companyVars>>

\* ---------------------------------------------------------------- products page
\* The Products component that adds stock to an existing product: its state,
\* fetchProducts, and handleSubmit with its three writes.
ProductNames == {"Urea", "urea"}
ProductUnits == {"kg", ""}
Quantities == {<<1>>, <<2>>}

\* name.toLowerCase()
ToLowerCase(name) == IF name = "Urea" THEN "urea" ELSE name

\* the place of a name in the order of .order('name', { ascending: true })
NameRank(name) == IF name = "Urea" THEN <<1>> ELSE <<2>>

\* quantity_unit: formData.quantity_unit || null; the null of a text column
\* is written "(null)"
UnitOrNull(unit) == IF unit = "" THEN "(null)" ELSE unit

\* the component's useState initial values; fetching: a fetchProducts is in flight
FreshCatalog ==
    [products |-> <<>>, filterCategory |-> "", isLoading |-> TRUE, isSubmitting |-> FALSE,
     isEditMode |-> FALSE, editingProduct |-> Null, pc |-> "idle", fetching |-> TRUE,
     job |-> Null, toast |-> ""]

\* what the select of fetchProducts returns: the rows of the category filter,
\* ordered by name
SelectProducts(rows, filterCategory) ==
    LET selected == SelectSeq(rows, LAMBDA r : filterCategory = ""
                                                  \/ r.category = filterCategory)
    IN  Sorted(selected, [i \in 1..Len(selected) |-> NameRank(selected[i].name)])

\* products.find((p) => p.name.toLowerCase() === formData.name.toLowerCase()
\*                      && p.quantity_unit === formData.quantity_unit)
ExistingProduct(list, form) ==
    LET found == {i \in 1..Len(list) :
                     /\ ToLowerCase(list[i].name) = ToLowerCase(form.name)
                     /\ list[i].quantity_unit = form.quantity_unit}
    IN  IF found = {} THEN Null
        ELSE list[CHOOSE i \in found : \A j \in found : i <= j]

\* the row handleSubmit inserts
NewProduct(id, form) ==
    [id |-> id, name |-> form.name, category |-> form.category,
     quantity |-> ParseInt(form.quantity), quantity_unit |-> UnitOrNull(form.quantity_unit)]

\* .update(values).eq('id', id)
UpdateById(rows, id, quantity) ==
    [i \in 1..Len(rows) |-> IF rows[i].id = id THEN [rows[i] EXCEPT !.quantity = quantity]
                            ELSE rows[i]]

\* .update of the edit branch: every column of the form
EditById(rows, id, form) ==
    [i \in 1..Len(rows) |-> IF rows[i].id = id THEN NewProduct(id, form) ELSE rows[i]]

\* fetchProducts returned: setProducts, finally setIsLoading(false)
fetchCatalogOk(s) ==
    /\ catalog[s].fetching
    /\ catalog' = [catalog EXCEPT ![s] =
           [@ EXCEPT !.products = SelectProducts(dbProducts, catalog[s].filterCategory),
                     !.fetching = FALSE, !.isLoading = FALSE]]
    /\ UNCHANGED <<stockVars, reportVars, authVars, dbProducts, companyVars>>

\* fetchProducts failed: toast, finally setIsLoading(false)
fetchCatalogFail(s) ==
    /\ catalog[s].fetching
    /\ catalog' = [catalog EXCEPT ![s] =
           [@ EXCEPT !.fetching = FALSE, !.isLoading = FALSE,
                     !.toast = "Error fetching products"]]
    /\ UNCHANGED <<stockVars, reportVars, authVars, dbProducts, companyVars>>

\* the category filter changes: the effect runs fetchProducts again
setFilterCategory(s, category) ==
    /\ catalog[s].pc # "closed"
    /\ catalog[s].filterCategory # category
    /\ catalog' = [catalog EXCEPT ![s] =
           [@ EXCEPT !.filterCategory = category, !.fetching = TRUE, !.isLoading = TRUE]]
    /\ UNCHANGED <<stockVars, reportVars, authVars, dbProducts, companyVars>>

\* handleEdit(product)
handleEdit(s, i) ==
    /\ catalog[s].pc = "idle"
    /\ i \in 1..Len(catalog[s].products)
    /\ catalog' = [catalog EXCEPT ![s] =
           [@ EXCEPT !.isEditMode = TRUE, !.editingProduct = catalog[s].products[i]]]
    /\ UNCHANGED <<stockVars, reportVars, authVars, dbProducts, companyVars>>

\* resetForm from the form's cancel button
resetForm(s) ==
    /\ catalog[s].pc = "idle"
    /\ catalog[s].isEditMode
    /\ catalog' = [catalog EXCEPT ![s] =
           [@ EXCEPT !.isEditMode = FALSE, !.editingProduct = Null]]
    /\ UNCHANGED <<stockVars, reportVars, authVars, dbProducts, companyVars>>

\* handleSubmit up to the await of its write, with no image selected
handleProductSubmit(s, form) ==
    LET existing == ExistingProduct(catalog[s].products, form)
    IN  /\ catalog[s].pc = "idle"
        /\ ~catalog[s].isSubmitting
        /\ (~catalog[s].isEditMode /\ existing # Null) =>
               existing.quantity + ParseInt(form.quantity) <= MaxStock
        \* an edit: the form handleEdit filled in, with another quantity
        /\ catalog[s].isEditMode =>
               /\ form.name = catalog[s].editingProduct.name
               /\ UnitOrNull(form.quantity_unit) = catalog[s].editingProduct.quantity_unit
        /\ catalog' = [catalog EXCEPT ![s] =
               [@ EXCEPT !.isSubmitting = TRUE, !.pc = "write", !.toast = "",
                         !.job = [isEditMode |-> catalog[s].isEditMode,
                                  editingProduct |-> catalog[s].editingProduct,
                                  existingProduct |-> existing,
                                  formData |-> form]]]
        /\ UNCHANGED <<stockVars, reportVars, authVars, dbProducts, companyVars>>

\* after the write: fetchProducts(), resetForm(), finally setIsSubmitting(false)
ProductSaved(s, message) ==
    catalog' = [catalog EXCEPT ![s] =
        [@ EXCEPT !.pc = "idle", !.job = Null, !.toast = message,
                  !.fetching = TRUE, !.isLoading = TRUE,
                  !.isEditMode = FALSE, !.editingProduct = Null, !.isSubmitting = FALSE]]

\* the write of handleSubmit succeeds: the update of the edited product, the
\* update of the existing product's quantity, or the insert
productWriteOk(s) ==
    LET j == catalog[s].job
    IN  /\ catalog[s].pc = "write"
        /\ IF j.isEditMode /\ j.editingProduct # Null
           THEN /\ dbProducts' = EditById(dbProducts, j.editingProduct.id, j.formData)
                /\ ProductSaved(s, "Product updated successfully")
           ELSE IF j.existingProduct # Null
           THEN /\ dbProducts' = UpdateById(dbProducts, j.existingProduct.id,
                                            j.existingProduct.quantity
                                                + ParseInt(j.formData.quantity))
                /\ ProductSaved(s, "Product stock updated successfully")
           ELSE /\ Len(dbProducts) < MaxProductRows
                /\ dbProducts' = Append(dbProducts,
                                        NewProduct(Len(dbProducts) + 1, j.formData))
                /\ ProductSaved(s, "Product added successfully")
        /\ UNCHANGED <<stockVars, reportVars, authVars, companyVars>>

\* the write fails: catch (toast), finally setIsSubmitting(false)
productWriteFail(s) ==
    /\ catalog[s].pc = "write"
    /\ catalog' = [catalog EXCEPT ![s] =
           [@ EXCEPT !.pc = "idle", !.job = Null, !.toast = "Error saving product",
                     !.isSubmitting = FALSE]]
    /\ UNCHANGED <<stockVars, reportVars, authVars, dbProducts, companyVars>>

\* ---------------------------------------------------------------- companies page
CompanyNames == {"", " ", "Acme "}

\* name.trim()
Trim(name) == CASE name = " " -> "" [] name = "Acme " -> "Acme" [] OTHER -> name

\* the page mounts: useState initial values, the effect starts fetchCompanies
openCompanies ==
    /\ companiesPage.pc = "closed"
    /\ companiesPage' = [ClosedCompanies EXCEPT !.pc = "idle", !.isLoading = TRUE,
                                                !.fetching = TRUE]
    /\ UNCHANGED <<stockVars, reportVars, authVars, catalogVars, dbCompanies>>

\* fetchCompanies returned: setCompanies, finally setIsLoading(false)
fetchCompaniesOk ==
    /\ companiesPage.fetching
    /\ companiesPage' = [companiesPage EXCEPT !.companies = dbCompanies,
                                              !.fetching = FALSE, !.isLoading = FALSE]
    /\ UNCHANGED <<stockVars, reportVars, authVars, catalogVars, dbCompanies>>

\* fetchCompanies failed: catch (toast), finally setIsLoading(false)
fetchCompaniesFail ==
    /\ companiesPage.fetching
    /\ companiesPage' = [companiesPage EXCEPT !.toast = "Error fetching companies",
                                              !.fetching = FALSE, !.isLoading = FALSE]
    /\ UNCHANGED <<stockVars, reportVars, authVars, catalogVars, dbCompanies>>

\* the name input changes
setCompanyName(name) ==
    /\ companiesPage.pc = "idle"
    /\ companiesPage.name # name
    /\ companiesPage' = [companiesPage EXCEPT !.name = name]
    /\ UNCHANGED <<stockVars, reportVars, authVars, catalogVars, dbCompanies>>

\* handleSubmit of the companies page up to its await: a blank name is
\* rejected before the flag is set
handleCompanySubmit ==
    /\ companiesPage.pc = "idle"
    /\ ~companiesPage.isSubmitting
    /\ companiesPage' =
           IF Trim(companiesPage.name) = ""
           THEN [companiesPage EXCEPT !.toast = "Company name is required"]
           ELSE [companiesPage EXCEPT !.isSubmitting = TRUE, !.pc = "insert", !.toast = ""]
    /\ UNCHANGED <<stockVars, reportVars, authVars, catalogVars, dbCompanies>>

\* the insert succeeds: toast, the form is reset, fetchCompanies() is started,
\* finally setIsSubmitting(false)
insertCompanyOk ==
    /\ companiesPage.pc = "insert"
    /\ Len(dbCompanies) < MaxCompanies
    /\ dbCompanies' = Append(dbCompanies, Trim(companiesPage.name))
    /\ companiesPage' = [companiesPage EXCEPT !.pc = "idle", !.name = "",
                                              !.toast = "Company added successfully",
                                              !.fetching = TRUE, !.isLoading = TRUE,
                                              !.isSubmitting = FALSE]
    /\ UNCHANGED <<stockVars, reportVars, authVars, catalogVars>>

\* the insert fails: catch (toast), finally setIsSubmitting(false)
insertCompanyFail ==
    /\ companiesPage.pc = "insert"
    /\ companiesPage' = [companiesPage EXCEPT !.pc = "idle",
                                              !.toast = "Error adding company",
                                              !.isSubmitting = FALSE]
    /\ UNCHANGED <<stockVars, reportVars, authVars, catalogVars, dbCompanies>>

\* ---------------------------------------------------------------- specifications
StockPages == {"sales", "returns", "products"}
NoDiscount == {0}
Discounts == 0..MaxDiscount

SelectStep(s) ==
    \/ \E c \in Customers \cup {""} : handleSaleCustomerChange(s, c)
    \/ \E c \in Companies \cup {""} : handleReturnCompanyChange(s, c)
    \/ \E i \in InvoiceIds \cup {""} : handleInvoiceChange(s, i)

ListStep(s) ==
    \/ addSaleItem(s)
    \/ \E i \in 1..MaxItems : removeSaleItem(s, i)
    \/ addReturnItem(s)
    \/ \E i \in 1..MaxItems : removeReturnItem(s, i)

ItemStep(s, offered, discounts) ==
    \/ \E i \in 1..MaxItems, f \in ItemFields :
          \E v \in FieldValues(products[s], f, offered, discounts) : updateSaleItem(s, i, f, v)
    \/ \E i \in 1..MaxItems, f \in ItemFields :
          \E v \in FieldValues(products[s], f, offered, discounts) : updateReturnItem(s, i, f, v)

RecordStep(s) ==
    \/ recordSale(s)
    \/ recordReturn(s)
    \/ updateQuantityOk(s)
    \/ insertRowsOk(s)
    \/ refreshProductsOk(s)

RecordFailure(s) ==
    \/ fetchProductsFail(s)
    \/ updateQuantityFail(s)
    \/ insertRowsFail(s)
    \/ refreshProductsFail(s)

InvoiceStep(s) ==
    \/ invoiceInitOk(s)
    \/ \E f \in InvoiceFields : \E v \in InvoiceFieldValues(f) : setInvoiceField(s, f, v)
    \/ handleSubmit(s)
    \/ insertInvoiceOk(s)
    \/ nextNumberOk(s)

InvoiceFailure(s) ==
    \/ invoiceInitFail(s)
    \/ insertInvoiceFail(s)
    \/ nextNumberFail(s)

\* Spec: one browser session on the sales, returns and products pages; every
\* backend call succeeds
Next ==
    \/ \E pg \in StockPages : Navigate(1, pg)
    \/ fetchProductsOk(1)
    \/ fetchStockOk(1)
    \/ SelectStep(1)
    \/ ListStep(1)
    \/ ItemStep(1, Products, NoDiscount)
    \/ RecordStep(1)

Spec == Init /\ [][Next]_vars

\* SpecPrice: one session recording sales and returns with discounts
NextPrice ==
    \/ \E pg \in {"sales", "returns"} : Navigate(1, pg)
    \/ fetchProductsOk(1)
    \/ SelectStep(1)
    \/ ItemStep(1, Products, Discounts)
    \/ RecordStep(1)

SpecPrice == Init /\ [][NextPrice]_vars

\* SpecFaulty: one session on the sales, returns, products and invoices pages;
\* any backend call may fail
NextFaulty ==
    \/ \E pg \in StockPages \cup {"invoices"} : Navigate(1, pg)
    \/ fetchProductsOk(1)
    \/ fetchStockOk(1)
    \/ fetchStockFail(1)
    \/ SelectStep(1)
    \/ ListStep(1)
    \/ ItemStep(1, {"p1"}, NoDiscount)
    \/ RecordStep(1)
    \/ RecordFailure(1)
    \/ InvoiceStep(1)
    \/ InvoiceFailure(1)

SpecFaulty == Init /\ [][NextFaulty]_vars

\* SpecRace: two sessions, one recording single-item sales and one recording
\* single-item returns of the same product; every backend call succeeds
InitRace == InitOn([s \in Sessions |-> IF s = 1 THEN "sales" ELSE "returns"])

NextRace ==
    \E s \in Sessions :
        \/ Navigate(s, page[s])
        \/ fetchProductsOk(s)
        \/ SelectStep(s)
        \/ ItemStep(s, {"p1"}, NoDiscount)
        \/ RecordStep(s)

SpecRace == InitRace /\ [][NextRace]_vars

\* SpecInvoices: two sessions on the invoices page; every backend call succeeds
InitInvoices == InitOn([s \in Sessions |-> "invoices"])

NextInvoices ==
    \E s \in Sessions :
        \/ Navigate(s, "invoices")
        \/ InvoiceStep(s)

SpecInvoices == InitInvoices /\ [][NextInvoices]_vars

\* the sequences of at most n elements of S
SeqsUpTo(S, n) == UNION {[1..k -> S] : k \in 0..n}

InvoiceRows(amounts) ==
    [date : ReportDates, total_amount : amounts, company_id : ReportCompanies]
SaleRows(amounts) ==
    [purchase_date : ReportDates, total_price : amounts, customer_id : ReportCustomers]
ReturnRows(amounts, companies) ==
    [return_date : ReportDates, total_price : amounts, company_id : companies]

\* SpecReports: the turnover, sales turnover and overview screens over every
\* content of the invoices, sales and returns tables within the bounds, in
\* either time zone; a fetch may fail
InitReports ==
    /\ InitStock([s \in Sessions |-> "sales"])
    /\ NoCatalogue
    /\ Admitted
    /\ view = NoView
    /\ reportInput \in [invoices : SeqsUpTo(InvoiceRows(ReportAmounts), MaxFetchedInvoices),
                         sales : SeqsUpTo(SaleRows({1}), MaxFetchedSales),
                         returns : SeqsUpTo(ReturnRows({1}, {"co1"}), MaxFetchedReturns),
                         tzWest : BOOLEAN]

NextReports ==
    \/ OpenReport("turnover", TurnoverInitial)
    \/ OpenReport("salesTurnover", SalesChartInitial)
    \/ OpenReport("overview", OverviewInitial)
    \/ fetchTurnoverDataOk
    \/ fetchTurnoverDataFail
    \/ fetchTurnoverOk
    \/ fetchTurnoverFail
    \/ fetchOverviewDataOk
    \/ fetchOverviewDataFail

SpecReports == InitReports /\ [][NextReports]_vars

\* SpecHistory: the reports tabs of the customers and returns screens over
\* every content of the sales and returns tables within the bound
InitHistory ==
    /\ InitStock([s \in Sessions |-> "sales"])
    /\ NoCatalogue
    /\ Admitted
    /\ view = NoView
    /\ reportInput \in [invoices : {<<>>},
                         sales : SeqsUpTo(SaleRows({1}), MaxHistory),
                         returns : SeqsUpTo(ReturnRows(ReportAmounts, {"co1"}), MaxHistory),
                         tzWest : {FALSE}]

NextHistory ==
    \/ OpenReport("customerReports", ReportTabInitial)
    \/ OpenReport("companyReports", ReportTabInitial)
    \/ \E pg \in ReportPages :
          \/ ReportTabReady(pg, TRUE)
          \/ ReportTabReady(pg, FALSE)
          \/ \E id \in ReportIds(pg) \cup {""} : ReportSelect(pg, id)
          \/ HistoryFetched(pg, TRUE)
          \/ HistoryFetched(pg, FALSE)
          \/ GenerateReport(pg)
          \/ ReportSaved(pg, TRUE)
          \/ ReportSaved(pg, FALSE)

SpecHistory == InitHistory /\ [][NextHistory]_vars

\* SpecGuard: two tabs behind their AuthGuards sharing the browser's auth session
InitGuard ==
    /\ InitStock([s \in Sessions |-> "sales"])
    /\ NoCatalogue
    /\ reportInput = NoRows
    /\ view = NoView
    /\ guard = [s \in Sessions |-> FreshGuard]
    /\ authSession \in BOOLEAN

NextGuard ==
    \/ SignOut
    \/ TokenRefreshed
    \/ \E s \in Sessions :
          \/ checkAuthOk(s)
          \/ checkAuthFail(s)
          \/ onAuthStateChange(s)
          \/ LoginShown(s)
          \/ SignIn(s)

SpecGuard == InitGuard /\ [][NextGuard]_vars


\* SpecCatalog: a session on the products page over a table that holds one
\* product; any fetch or write may fail
\* the forms submitted: the category is left at the form's default
ProductForms ==
    [name : ProductNames, quantity_unit : ProductUnits, category : {"Insecticide"},
     quantity : Quantities]

InitCatalog ==
    /\ InitStock([s \in Sessions |-> "sales"])
    /\ reportInput = NoRows
    /\ view = NoView
    /\ Admitted
    /\ dbProducts = <<[id |-> 1, name |-> "Urea", category |-> "Insecticide",
                       quantity |-> 1, quantity_unit |-> "kg"]>>
    /\ catalog = [s \in Sessions |-> IF s = 1 THEN FreshCatalog ELSE ClosedCatalog]
    /\ dbCompanies = <<>>
    /\ companiesPage = ClosedCompanies

NextCatalog ==
    \E s \in Sessions :
        \/ fetchCatalogOk(s)
        \/ fetchCatalogFail(s)
        \/ \E c \in {"", "Fertilizer"} : setFilterCategory(s, c)
        \/ \E i \in 1..MaxProductRows : handleEdit(s, i)
        \/ resetForm(s)
        \/ \E form \in ProductForms : handleProductSubmit(s, form)
        \/ productWriteOk(s)
        \/ productWriteFail(s)

SpecCatalog == InitCatalog /\ [][NextCatalog]_vars

\* SpecLive: a dashboard session that records sales, adds companies and opens
\* the overview, one page at a time (a page is left when none of its calls is
\* in flight, and leaving it unmounts its component), while a second browser
\* goes through AuthGuard; any backend call may fail. Every request the client
\* has sent is answered, with a result or with an error: the client library
\* resolves each call either way, so the continuation of an await is weakly
\* fair.
InitLive ==
    /\ InitStock([s \in Sessions |-> "sales"])
    /\ NoCatalogue
    /\ reportInput = NoRows
    /\ view = NoView
    /\ guard = [s \in Sessions |-> IF s = 1 THEN AdmittedGuard ELSE FreshGuard]
    /\ authSession = TRUE

\* the sales page is in front, with nothing entered and no handler running
SalesAtRest ==
    /\ pc[1] = "idle"
    /\ FormOf(1) = <<<<EmptyItem>>, "">>
    /\ audit[1] = NoAudit

OnSalesPage == companiesPage.pc = "closed" /\ view.page = "none"

\* the companies page is left: its component unmounts
leaveCompanies ==
    /\ companiesPage.pc = "idle" /\ ~companiesPage.fetching
    /\ companiesPage' = ClosedCompanies
    /\ UNCHANGED <<stockVars, reportVars, authVars, catalogVars, dbCompanies>>

\* the overview is left: its component unmounts
leaveOverview ==
    /\ view.page = "overview" /\ view.pc = "idle"
    /\ view' = NoView
    /\ UNCHANGED <<stockVars, reportInput, authVars, catalogVars, companyVars>>

SaleAnswered ==
    \/ fetchProductsOk(1) \/ fetchProductsFail(1)
    \/ updateQuantityOk(1) \/ updateQuantityFail(1)
    \/ insertRowsOk(1) \/ insertRowsFail(1)
    \/ refreshProductsOk(1) \/ refreshProductsFail(1)

OverviewAnswered == fetchOverviewDataOk \/ fetchOverviewDataFail

CompaniesFetched == fetchCompaniesOk \/ fetchCompaniesFail

CompanyInsertAnswered == insertCompanyOk \/ insertCompanyFail

SessionChecked == checkAuthOk(2) \/ checkAuthFail(2)

NextLive ==
    \/ OnSalesPage /\ Navigate(1, "sales")
    \/ fetchProductsOk(1)
    \/ fetchProductsFail(1)
    \/ OnSalesPage /\ \E c \in Customers \cup {""} : handleSaleCustomerChange(1, c)
    \/ OnSalesPage /\ \E f \in ItemFields :
          \E v \in FieldValues(products[1], f, {"p1"}, NoDiscount) : updateSaleItem(1, 1, f, v)
    \/ OnSalesPage /\ recordSale(1)
    \/ updateQuantityOk(1)
    \/ updateQuantityFail(1)
    \/ insertRowsOk(1)
    \/ insertRowsFail(1)
    \/ refreshProductsOk(1)
    \/ refreshProductsFail(1)
    \/ SalesAtRest /\ OnSalesPage /\ OpenReport("overview", OverviewInitial)
    \/ fetchOverviewDataOk
    \/ fetchOverviewDataFail
    \/ leaveOverview
    \/ SalesAtRest /\ OnSalesPage /\ openCompanies
    \/ fetchCompaniesOk
    \/ fetchCompaniesFail
    \/ \E name \in CompanyNames : setCompanyName(name)
    \/ handleCompanySubmit
    \/ insertCompanyOk
    \/ insertCompanyFail
    \/ leaveCompanies
    \/ checkAuthOk(2)
    \/ checkAuthFail(2)
    \/ \E s \in Sessions : onAuthStateChange(s)
    \/ LoginShown(2)
    \/ SignIn(2)

SpecLive ==
    /\ InitLive
    /\ [][NextLive]_vars
    /\ WF_vars(SaleAnswered)
    /\ WF_vars(OverviewAnswered)
    /\ WF_vars(CompaniesFetched)
    /\ WF_vars(CompanyInsertAnswered)
    /\ WF_vars(SessionChecked)

\* ---------------------------------------------------------------- properties
RecordKinds == {"sale", "return"}

\* the line items of a submitted sale or return form that name a product
SubmittedItems(a) == ValidItems(a.form[1])

Tables == <<Len(dbSales), Len(dbReturns)>>

Depleted(p) == SumQty(dbSales, p) + SumQty(dbReturns, p)

Quiet == \A s \in Sessions : pc[s] \in {"idle", "mount"}

\* C1 (SpecFaulty): a recordSale / recordReturn whose form holds a line item
\* asking for more than the quantity recorded for its product when the handler
\* is called issues no backend call: the product quantities and the sales and
\* returns tables stay as they were.
OverStockRejectedBeforeWrite ==
    \A s \in Sessions :
        (/\ audit[s].kind \in RecordKinds
         /\ \E i \in 1..Len(SubmittedItems(audit[s])) :
               SubmittedItems(audit[s])[i].quantity
                   > audit[s].qtyBefore[SubmittedItems(audit[s])[i].productId])
        => (audit[s].calls = 0 /\ dbQty = audit[s].qtyBefore /\ Tables = audit[s].rowsBefore)

\* C2 (Spec): with no backend failure and no handler running, every product's
\* recorded quantity is its starting quantity minus the quantities of all the
\* sale and return rows inserted for it.
QuantityIsStartMinusRows ==
    Quiet => \A p \in Products : dbQty[p] = InitQty - Depleted(p)

\* the value the last committed update of a submission wrote for product p,
\* or the quantity before the submission if it wrote none
RECURSIVE LastWritten(_, _, _)
LastWritten(committed, p, before) ==
    IF committed = <<>> THEN before
    ELSE IF committed[Len(committed)][1] = p THEN committed[Len(committed)][2]
    ELSE LastWritten(SubSeq(committed, 1, Len(committed) - 1), p, before)

\* C3 (SpecFaulty): once a recordSale / recordReturn has ended in a failed
\* backend write, every quantity update it committed before the failure is
\* still in place and the sales and returns tables hold no row of it.
FailedSubmissionKeepsDecrement ==
    \A s \in Sessions :
        (audit[s].kind \in RecordKinds /\ audit[s].outcome = "failed")
        => /\ \A p \in Products :
                 dbQty[p] = LastWritten(audit[s].committed, p, audit[s].qtyBefore[p])
           /\ Tables = audit[s].rowsBefore

FailedAfterDecrement ==
    \E s \in Sessions :
        /\ audit[s].kind \in RecordKinds /\ audit[s].outcome = "failed"
        /\ Len(audit[s].committed) > 0
        /\ dbQty # audit[s].qtyBefore

\* C4 (SpecRace): whatever the interleaving of the two sessions, the quantities
\* of the sale and return rows inserted for a product never add up to more
\* than the quantity the product started with.
NeverOversold == \A p \in Products : Depleted(p) <= InitQty

\* C5 (Spec): when only sales have been recorded, the stock the products
\* screen shows for a product is the quantity received minus the quantity sold.
StockIsReceivedMinusSold ==
    \A s \in Sessions :
        (page[s] = "products" /\ pc[s] = "idle" /\ dbReturns = <<>>)
        => \A p \in Products : products[s][p].stock = InitQty - SumQty(dbSales, p)

\* C6 (Spec): the stock the products screen shows for a product is
\* max(0, recorded quantity - quantities of its sale and return rows), and is
\* never negative.
DisplayStockNetOfDepletions ==
    \A s \in Sessions :
        (page[s] = "products" /\ pc[s] = "idle")
        => \A p \in Products :
              /\ products[s][p].stock = Max(0, products[s][p].quantity - Depleted(p))
              /\ products[s][p].stock >= 0

\* unit price x quantity - discount of a stored row (discount_price null is 0)
ExactPrice(row) ==
    Price[row.product_id] * row.quantity
        - (IF row.discount_price = <<>> THEN 0 ELSE row.discount_price[1])

InvoiceNumbersUniqueSequential ==
    /\ \A i, j \in 1..Len(dbInvoices) :
          i # j => dbInvoices[i].invoice_number # dbInvoices[j].invoice_number
    /\ \A i \in 1..Len(dbInvoices) :
          dbInvoices[i].invoice_number = PadStart(NumberToString(i), 3)

\* a required field of the submitted form is missing
RequiredMissing(a) ==
    CASE a.kind = "sale" ->
            \/ a.form[2] = ""
            \/ ~\E i \in 1..Len(a.form[1]) :
                   a.form[1][i].productId # "" /\ a.form[1][i].quantity > 0
      [] a.kind = "return" ->
            \/ a.form[2] = "" \/ a.form[3] = ""
            \/ ~\E i \in 1..Len(a.form[1]) :
                   a.form[1][i].productId # "" /\ a.form[1][i].quantity > 0
      [] a.kind = "invoice" ->
            \/ a.form[1].company_id = "" \/ Len(a.form[1].invoice_number) = 0
            \/ a.form[1].date = "" \/ a.form[1].total_amount = ""
      [] OTHER -> FALSE

\* C9 (Spec): a submit handler called with a required field missing (no
\* customer, company or invoice selected, empty invoice field, no line item
\* with a product and a positive quantity) issues no backend call.
ValidationBeforeNetwork ==
    \A s \in Sessions : RequiredMissing(audit[s]) => audit[s].calls = 0

GrowthAsSpecified ==
    (view.page = "overview" /\ view.outcome = "loaded") =>
        LET points == view.data.combinedData
            n == Len(points)
            expected(first, last) ==
                IF n >= 2 /\ first # 0 THEN [num |-> (last - first) * 100, den |-> first]
                ELSE <<>>
        IN  /\ view.data.purchaseGrowth
                   = expected(points[1].purchases, points[n].purchases)
            /\ view.data.salesGrowth = expected(points[1].sales, points[n].sales)

\* C12 (SpecReports): every share shown is row total / grand total * 100 when
\* the grand total is not 0 and 0 when it is 0: the market share of the
\* turnover screen and the "% of Total" columns of the overview's company and
\* buyer tables.
SharesGuardZeroTotal ==
    LET expected(rowTotal, grandTotal) ==
            IF grandTotal = 0 THEN [num |-> 0, den |-> 1]
            ELSE [num |-> rowTotal * 100, den |-> grandTotal]
    IN  /\ (view.page = "turnover" /\ view.outcome = "loaded") =>
              \A i \in 1..Len(view.data.companyTurnover) :
                  view.data.companyTurnover[i].marketShare
                      = expected(view.data.companyTurnover[i].purchaseTurnover,
                                 view.data.totalPurchaseTurnover)
        /\ (view.page = "overview" /\ view.outcome = "loaded") =>
              /\ \A i \in 1..Len(view.data.companyData) :
                     PercentOfTotal(view.data.companyData, view.data.totalPurchases)[i]
                         = expected(view.data.companyData[i].purchases,
                                    view.data.totalPurchases)
              /\ \A i \in 1..Len(view.data.buyerData) :
                     PercentOfTotal(view.data.buyerData, view.data.totalSales)[i]
                         = expected(view.data.buyerData[i].purchases, view.data.totalSales)

AggregatedByDate ==
    LET invoiced(d) == SumOf(SelectSeq(reportInput.invoices, LAMBDA r : r.date = d),
                             "total_amount")
        sold(d) == SumOf(SelectSeq(reportInput.sales, LAMBDA r : r.purchase_date = d),
                         "total_price")
        invoiceDates == {reportInput.invoices[i].date : i \in 1..Len(reportInput.invoices)}
        saleDates == {reportInput.sales[i].purchase_date : i \in 1..Len(reportInput.sales)}
        ascending(series, Key(_)) ==
            \A i, j \in 1..Len(series) : i < j => KeyLess(Key(series[i]), Key(series[j]))
    IN  /\ (view.page = "salesTurnover" /\ view.outcome = "loaded") =>
              LET series == view.data.salesData
              IN  /\ {series[i].date : i \in 1..Len(series)} = saleDates
                  /\ ascending(series, LAMBDA e : e.date)
                  /\ \A i \in 1..Len(series) : series[i].sales = sold(series[i].date)
        /\ (view.page = "turnover" /\ view.outcome = "loaded") =>
              LET series == view.data.dailyTurnover
              IN  /\ {series[i].date : i \in 1..Len(series)} = invoiceDates \cup saleDates
                  /\ ascending(series, LAMBDA e : e.date)
                  /\ \A i \in 1..Len(series) :
                         /\ series[i].purchaseTurnover = invoiced(series[i].date)
                         /\ series[i].salesTurnover = sold(series[i].date)
                  /\ ascending(view.data.monthlyTurnover, LAMBDA e : e.month)

\* the sales chart computed from two rows that came back with the later date
\* first
SalesChartFromUnorderedRows ==
    /\ view.page = "salesTurnover" /\ view.outcome = "loaded"
    /\ Len(reportInput.sales) = 2
    /\ KeyLess(reportInput.sales[2].purchase_date, reportInput.sales[1].purchase_date)
    /\ Len(view.data.salesData) = 2

\* C15 (SpecReports): a net series has exactly one entry for each key of
\* either side, its net value is the difference of the two sides' sums for
\* that key, and a side without the key counts 0: the daily and monthly series
\* of the turnover screen (sales minus purchases) and the chart of the overview
\* (purchases minus returns).
NetSeriesOverUnion ==
    LET tz == reportInput.tzWest
        invoices == reportInput.invoices
        sales == reportInput.sales
        returns == reportInput.returns
        sumOn(rows, Key(_), Amount(_), k) ==
            LET picked == SelectSeq(rows, LAMBDA r : Key(r) = k)
            IN  SumSeq([i \in 1..Len(picked) |-> Amount(picked[i])])
        keysOf(rows, Key(_)) == {Key(rows[i]) : i \in 1..Len(rows)}
        nth(keys, i) == CHOOSE k \in keys : Cardinality({j \in keys : KeyLess(j, k)}) = i - 1
        once(series, keys) ==
            \A k \in keys : Cardinality({i \in 1..Len(series) : series[i].date = k}) = 1
    IN  /\ (view.page = "turnover" /\ view.outcome = "loaded") =>
              LET daily == view.data.dailyTurnover
                  monthly == view.data.monthlyTurnover
                  months == keysOf(invoices, LAMBDA r : MonthKey(r.date, tz))
                                \cup keysOf(sales, LAMBDA r : MonthKey(r.purchase_date, tz))
              IN  /\ once(daily, keysOf(invoices, LAMBDA r : r.date)
                                     \cup keysOf(sales, LAMBDA r : r.purchase_date))
                  /\ \A i \in 1..Len(daily) :
                         daily[i].netTurnover
                             = sumOn(sales, LAMBDA r : r.purchase_date,
                                     LAMBDA r : r.total_price, daily[i].date)
                               - sumOn(invoices, LAMBDA r : r.date,
                                       LAMBDA r : r.total_amount, daily[i].date)
                  /\ Len(monthly) = Cardinality(months)
                  /\ \A i \in 1..Len(monthly) :
                         monthly[i].netTurnover
                             = sumOn(sales, LAMBDA r : MonthKey(r.purchase_date, tz),
                                     LAMBDA r : r.total_price, nth(months, i))
                               - sumOn(invoices, LAMBDA r : MonthKey(r.date, tz),
                                       LAMBDA r : r.total_amount, nth(months, i))
        /\ (view.page = "overview" /\ view.outcome = "loaded") =>
              LET chart == view.data.combinedData
              IN  /\ once(chart, keysOf(invoices, LAMBDA r : r.date)
                                     \cup keysOf(returns, LAMBDA r : r.return_date))
                  /\ \A i \in 1..Len(chart) :
                         chart[i].purchases
                             = sumOn(invoices, LAMBDA r : r.date,
                                     LAMBDA r : r.total_amount, chart[i].date)
                               - sumOn(returns, LAMBDA r : r.return_date,
                                       LAMBDA r : r.total_price, chart[i].date)

\* the turnover screen with a date that only has a sale and a date that only
\* has an invoice
OneSidedKeysLoaded ==
    /\ view.page = "turnover" /\ view.outcome = "loaded"
    /\ \E i, j \in 1..Len(view.data.dailyTurnover) :
           /\ view.data.dailyTurnover[i].netTurnover < 0
           /\ view.data.dailyTurnover[i].salesTurnover = 0
           /\ view.data.dailyTurnover[j].netTurnover > 0
           /\ view.data.dailyTurnover[j].purchaseTurnover = 0

\* C16 (SpecHistory): the document a report generator has saved lists its
\* groups, in the summary table and in the detail tables, in ascending order of
\* their date.
ReportGroupsAscending ==
    (view.page \in {"customerReports", "companyReports"} /\ view.data.doc # Null) =>
        LET summary == view.data.doc.summaryRows
            details == view.data.doc.details
        IN  /\ \A i, j \in 1..Len(summary) :
                   i < j => KeyLess(summary[i].date, summary[j].date)
            /\ \A i, j \in 1..Len(details) :
                   i < j => KeyLess(details[i].date, details[j].date)

ChildrenOnlyWithSession ==
    \A s \in Sessions : RendersChildren(s) => guard[s].seen = "session"

\* C19 (SpecRace): in every state reached by interleaved sales and returns
\* with positive line quantities, every product's recorded quantity is >= 0.
QuantityNeverNegative ==
    \A p \in Products : dbQty[p] >= 0

\* a sale and a return of the same product in flight together, both past
\* their quantity update, with the product's recorded quantity at 0
BothWroteDownToZero ==
    /\ pc[1] \in {"insert", "refresh"} /\ pc[2] \in {"insert", "refresh"}
    /\ Len(audit[1].committed) > 0 /\ Len(audit[2].committed) > 0
    /\ dbQty["p1"] = 0

\* C20 (SpecFaulty): a running recordSale / recordReturn issues a product
\* quantity update only after its stock check passed and before its insert,
\* inserts its rows only after the update of every line item has succeeded,
\* and changes the form only after the insert has succeeded, on the return of
\* the product refresh.
StepsInOrder ==
    [][\A s \in Sessions :
          (audit[s].kind \in {"sale", "return"} /\ audit[s].outcome = "running") =>
              LET items == job[s].validItems
                  updates == Cardinality({i \in 1..Len(items) :
                                             Found(job[s].products, items[i].productId)})
                  rowsNow == Len(dbSales) + Len(dbReturns)
                  rowsBefore == audit[s].rowsBefore[1] + audit[s].rowsBefore[2]
              IN  /\ pc[s] \in {"update", "insert", "refresh"}
                  /\ dbQty' # dbQty =>
                         /\ pc[s] = "update"
                         /\ StockOk(job[s].products, items)
                         /\ rowsNow = rowsBefore
                  /\ (dbSales' # dbSales \/ dbReturns' # dbReturns) =>
                         /\ pc[s] = "insert"
                         /\ Len(audit[s].committed) = updates
                         /\ pc'[s] = "refresh"
                  /\ pc'[s] = "insert" => Len(audit'[s].committed) = updates
                  /\ FormOf(s)' # FormOf(s) =>
                         /\ pc[s] = "refresh"
                         /\ rowsNow = rowsBefore + Len(job[s].data)]_vars

\* a sale of two line items that went through all its steps
TwoItemSaleDone ==
    /\ audit[1].kind = "sale" /\ audit[1].outcome = "done"
    /\ Len(audit[1].committed) = 2
    /\ Len(dbSales) = 2
    /\ saleItems[1] = <<EmptyItem>>

\* C21 (SpecReports): once the overview has loaded, every company of an
\* invoice or of a return has one row in the company table, the row's figure
\* is the sum of the company's invoice totals minus the sum of its return
\* totals, and the figures of all rows add up to totalPurchases.
PurchasesNetPerCompany ==
    (view.page = "overview" /\ view.outcome = "loaded") =>
        LET invoices == reportInput.invoices
            returns == reportInput.returns
            table == view.data.companyData
            companies == {invoices[i].company_id : i \in 1..Len(invoices)}
                             \cup {returns[i].company_id : i \in 1..Len(returns)}
            net(c) == SumOf(SelectSeq(invoices, LAMBDA r : r.company_id = c), "total_amount")
                          - SumOf(SelectSeq(returns, LAMBDA r : r.company_id = c), "total_price")
        IN  /\ \A c \in companies :
                   /\ Cardinality({i \in 1..Len(table) : table[i].id = c}) = 1
                   /\ \A i \in 1..Len(table) : table[i].id = c => table[i].purchases = net(c)
            /\ SumOf(table, "purchases") = view.data.totalPurchases

\* C22 (SpecFaulty): invoices, sale rows and return rows are append-only:
\* every step leaves each row that is in the invoices, sales or returns table
\* in the table, at its place and with its fields as they were.
RowsAppendOnly ==
    [][/\ Len(dbInvoices') >= Len(dbInvoices)
       /\ SubSeq(dbInvoices', 1, Len(dbInvoices)) = dbInvoices
       /\ Len(dbSales') >= Len(dbSales)
       /\ SubSeq(dbSales', 1, Len(dbSales)) = dbSales
       /\ Len(dbReturns') >= Len(dbReturns)
       /\ SubSeq(dbReturns', 1, Len(dbReturns)) = dbReturns]_vars

\* a second sale recorded after a first one, with an invoice in the table
SecondSaleRecorded ==
    /\ audit[1].kind = "sale" /\ audit[1].outcome = "done"
    /\ audit[1].rowsBefore[1] = 1
    /\ Len(dbSales) = 2
    /\ Len(dbInvoices) >= 1

\* C23 (SpecHistory): in a saved report that has groups, every row of the
\* history it was assembled from is a detail row of exactly one group, each
\* group's summary row counts its detail rows and totals their line totals,
\* and the grand total is the sum of the group totals.
ReportGroupsConsistent ==
    (/\ view.page \in ReportPages
     /\ view.data.doc # Null
     /\ Len(view.data.doc.grouped) > 0) =>
        LET doc == view.data.doc
            history == doc.grouped
            placed == [i \in 1..Len(doc.details) |-> Len(doc.details[i].rows)]
        IN  /\ Len(doc.summaryRows) = Len(doc.details)
            /\ SumSeq(placed) = Len(history)
            /\ \A k \in 1..Len(history) :
                   Cardinality({i \in 1..Len(doc.details) :
                                   \E j \in 1..Len(doc.details[i].rows) :
                                       doc.details[i].rows[j] = history[k]}) = 1
            /\ \A i \in 1..Len(doc.details) :
                   /\ doc.summaryRows[i].date = doc.details[i].date
                   /\ doc.summaryRows[i].items = Len(doc.details[i].rows)
                   /\ doc.summaryRows[i].total = SumOf(doc.details[i].rows, "total_price")
            /\ doc.grandTotal = SumOf(doc.summaryRows, "total")

\* a company report of two groups with different totals
TwoGroupReportSaved ==
    /\ view.page = "companyReports" /\ view.data.doc # Null
    /\ Len(view.data.doc.details) = 2
    /\ view.data.doc.summaryRows[1].total # view.data.doc.summaryRows[2].total

\* the rows of a sequence in every order
RowOrders(rows) ==
    {[i \in 1..Len(rows) |-> rows[f[i]]] :
        f \in {g \in [1..Len(rows) -> 1..Len(rows)] :
                  \A i, j \in 1..Len(rows) : g[i] = g[j] => i = j}}

\* the entries of a series, without their order
Entries(series) == {series[i] : i \in 1..Len(series)}

AddOrMergeExactly ==
    [][\A s \in Sessions :
          (/\ catalog[s].pc = "write"
           /\ ~catalog[s].job.isEditMode
           /\ catalog'[s].toast \in {"Product stock updated successfully",
                                     "Product added successfully"}) =>
              LET form == catalog[s].job.formData
                  entered == ParseInt(form.quantity)
                  matching == {i \in 1..Len(dbProducts) :
                                  /\ ToLowerCase(dbProducts[i].name) = ToLowerCase(form.name)
                                  /\ dbProducts[i].quantity_unit = form.quantity_unit}
              IN  IF matching # {}
                  THEN /\ Len(dbProducts') = Len(dbProducts)
                       /\ \E i \in matching :
                              /\ dbProducts'[i].quantity = dbProducts[i].quantity + entered
                              /\ \A j \in 1..Len(dbProducts) \ {i} :
                                     dbProducts'[j] = dbProducts[j]
                  ELSE /\ Len(dbProducts') = Len(dbProducts) + 1
                       /\ dbProducts'[Len(dbProducts')].quantity = entered
                       /\ \A j \in 1..Len(dbProducts) : dbProducts'[j] = dbProducts[j]]_vars

\* C26 (SpecHistory): a saved customer or company report whose awaited history
\* fetch succeeded is assembled from exactly the rows that fetch returned.
ReportOfAwaitedFetch ==
    (/\ view.page \in ReportPages
     /\ view.data.doc # Null
     /\ view.data.doc.fetched) =>
        view.data.doc.grouped = view.data.doc.awaited

\* C27 (SpecReports): on a loaded turnover screen the daily and the monthly
\* purchaseTurnover each sum to totalPurchaseTurnover, the daily and the
\* monthly salesTurnover each sum to totalSalesTurnover, and the companies'
\* invoiceCount sums to totalInvoices.
BreakdownsSumToTotals ==
    (view.page = "turnover" /\ view.outcome = "loaded") =>
        LET data == view.data
        IN  /\ SumOf(data.dailyTurnover, "purchaseTurnover") = data.totalPurchaseTurnover
            /\ SumOf(data.monthlyTurnover, "purchaseTurnover") = data.totalPurchaseTurnover
            /\ SumOf(data.dailyTurnover, "salesTurnover") = data.totalSalesTurnover
            /\ SumOf(data.monthlyTurnover, "salesTurnover") = data.totalSalesTurnover
            /\ SumOf(data.companyTurnover, "invoiceCount") = data.totalInvoices

\* a turnover screen of two invoices of different companies and months and two
\* sales of different days, with a month that has an invoice and no sale
TurnoverOfSeveralGroups ==
    /\ view.page = "turnover" /\ view.outcome = "loaded"
    /\ Len(view.data.companyTurnover) = 2
    /\ Len(view.data.monthlyTurnover) = 2
    /\ Len(view.data.dailyTurnover) = 3
    /\ view.data.totalSalesTurnover = 2
    /\ view.data.totalPurchaseTurnover = 3
    /\ \E i \in 1..2 : /\ view.data.monthlyTurnover[i].salesTurnover = 0
                       /\ view.data.monthlyTurnover[i].purchaseTurnover > 0

\* C28 (SpecFaulty): in every state reached by adding, removing and updating
\* line items and by submissions that succeed or fail, the line-item list of
\* the sale form and of the return form holds at least one item.
ItemListNeverEmpty ==
    \A s \in Sessions : Len(saleItems[s]) >= 1 /\ Len(returnItems[s]) >= 1

\* a return of two line items has gone through and left the return form with
\* one empty item
ListAfterTwoItemReturn ==
    /\ audit[1].kind = "return" /\ audit[1].outcome = "done"
    /\ Len(audit[1].form[1]) = 2
    /\ Len(dbReturns) = 2
    /\ returnItems[1] = <<EmptyItem>>

\* C29 (SpecLive): every handler that sets a loading or submitting flag resets
\* it: whenever no backend call of a page is in flight its flag is false, and
\* a flag that is true eventually becomes false. This holds for isLoading of
\* the sales page (recordSale, fetchProducts), isLoading of the overview,
\* isSubmitting and isLoading of the companies page, and loading of AuthGuard.
FlagsEventuallyReset ==
    /\ [](pc[1] = "idle" => ~isLoading[1])
    /\ []((view.page = "overview" /\ view.pc = "idle") => ~view.data.isLoading)
    /\ []((companiesPage.pc = "idle" /\ ~companiesPage.fetching) =>
              (~companiesPage.isSubmitting /\ ~companiesPage.isLoading))
    /\ []((Mounted(2) /\ ~guard[2].checking) => ~guard[2].loading)
    /\ isLoading[1] ~> ~isLoading[1]
    /\ (view.page = "overview" /\ view.data.isLoading)
           ~> (view.page = "overview" /\ ~view.data.isLoading)
    /\ companiesPage.isSubmitting ~> ~companiesPage.isSubmitting
    /\ companiesPage.isLoading ~> ~companiesPage.isLoading
    /\ guard[2].loading ~> ~guard[2].loading

\* a sale was recorded, later the insert of a company failed and the list
\* fetch of the companies page returned, and the second browser was admitted:
\* every flag is false
HandlersReturned ==
    /\ Len(dbSales) = 1 /\ ~isLoading[1]
    /\ companiesPage.toast = "Error adding company"
    /\ companiesPage.pc = "idle" /\ ~companiesPage.fetching
    /\ ~companiesPage.isSubmitting /\ ~companiesPage.isLoading
    /\ RendersChildren(2)

====
